---- MODULE Spec2Model ----
(***************************************************************************)
(* A model of the OmniCoder-AGI command line tool (src/cli): the keyword   *)
(* router, the seeded task simulator, process_task / train_engines and the *)
(* append-only JSON Lines logger.                                          *)
(*                                                                         *)
(* Conventions.  A text the router reads is a sequence of one-character     *)
(* strings; a task of the command line harness is a string and chars(task) *)
(* its characters.                                                         *)
(* An engine quality and the running quality are integers in units of      *)
(* 0.0001 (0.9927 is 9927); a uniform() draw is an integer in units of     *)
(* 0.000001; a confidence is an integer in units of 0.01 percent.  A       *)
(* Python dict whose order matters is a sequence of records.               *)
(***************************************************************************)
EXTENDS Integers, Sequences, FiniteSets, TLC

VARIABLES
    engines,            \* OmniCoderAGI.engines: sequence of [name, quality]
    current_quality,    \* OmniCoderAGI.current_quality
    clock,              \* time.time(), in clock units
    rng,                \* random.Random(sha256(task)): task |-> the draws it yields
    session_log,        \* database/sessions/cli_history.jsonl, a sequence of lines
    learning_log,       \* database/training/learning.jsonl
    upgrade_log,        \* database/training/upgrade_requests_cli.jsonl
    hyperparameter_log, \* database/training/hyperparameters.jsonl
    pc,                 \* position of the running command
    cmd,                \* locals of the running command (run / train_engines)
    call,               \* locals of the running process_task call
    returned,           \* the TaskResult the last finished process_task call returned
    metrics,            \* the TrainingMetrics the last finished train_engines call returned
    history,            \* every process_task call finished so far: its arguments and result
    commands,           \* number of commands started
    budget,             \* number of commands the harness may start
    text,               \* route harness: the text last given to select_board
    selected,           \* route harness: what select_board returned
    resolved,           \* route harness: the last get_engines_for_board call
    servers,            \* MCPRouter.servers: sequence of [key, languages]
    mcp_config,         \* mcp_integrations/config.json: the servers saved in it
    routed,             \* the last route_task call of the mcp command on these servers
    log,                \* log harness: the lines of one JSONLogger file
    acked,              \* log harness: the payloads append returned, in order
    lastRead,           \* log harness: the last tail or search of the file as it is now
    settings_file,      \* settings/default.json: whether it exists, and its text
    managers,           \* per process: its SettingsManager and its position
    got,                \* the last SettingsManager.get call
    memory_files,       \* database/memory/general: key |-> the document saved
    invoked,            \* the last command line run to its end, and how it ended
    trainer,            \* ExtremeTrainingEngine: training_history, and how the last cycle ended
    history_file,       \* training_history.json: whether it exists, and its documents
    upgrade,            \* cmd_upgrade: the plan, the step it is at, the results so far
    collab,             \* CollaborationManager: sessions in dict order, current_session
    sessions_file,      \* sessions.json: whether it exists, and its text
    joined,             \* per session id: who created or joined it and has not left
    ext                 \* BrowserExtensionServer, its thread, its caller and its socket

vars == << engines, current_quality, clock, rng, session_log,
           learning_log, upgrade_log, hyperparameter_log, pc, cmd, call,
           returned, metrics, history, commands, budget, text, selected, resolved,
           servers, mcp_config, routed, log, acked, lastRead,
           settings_file, managers, got, memory_files, invoked, trainer,
           history_file, upgrade, collab, sessions_file, joined, ext >>

cliVars == << engines, current_quality, clock, rng, session_log,
              learning_log, upgrade_log, hyperparameter_log, pc, cmd, call,
              returned, metrics, history, commands, budget >>
mcpVars == << servers, mcp_config, routed >>
routeVars == << text, selected, resolved, servers, mcp_config, routed >>
logVars == << log, acked, lastRead >>
settingsVars == << settings_file, managers, got >>
cmdVars == << memory_files, invoked >>
trainVars == << trainer, history_file >>
\* the variables of the harnesses of single modules
upVars == << upgrade >>
collabVars == << collab, sessions_file, joined >>
browserVars == << ext >>
laterVars == << trainVars, upVars, collabVars, browserVars >>
extVars == << cmdVars, laterVars >>

-----------------------------------------------------------------------------
(* Bounds of the model.                                                    *)

\* commands (run, train) one behaviour starts
MaxCommands == 2
\* the clock stops advancing here
MaxClock == 1
\* words in a text given to select_board by the route harness
MaxWords == 2
\* lines one log file of the log harness holds
MaxLines == 3
\* largest limit the log harness passes to tail
MaxLimit == 3
\* the number of keys add_server may add to the default servers
MaxServers == 1
\* the largest --agents of the multi command
MaxAgents == 4
\* command lines the command harness runs one after the other
MaxInvocations == 2
\* training cycles the training harness records on top of the earlier ones
MaxCycles == 4
\* requests clients send to the extension server
MaxRequests == 2

-----------------------------------------------------------------------------
(* Python str and sequence helpers.                                        *)

UpperToLower ==
    [A |-> "a", B |-> "b", C |-> "c", D |-> "d", E |-> "e", F |-> "f",
     G |-> "g", H |-> "h", I |-> "i", J |-> "j", K |-> "k", L |-> "l",
     M |-> "m", N |-> "n", O |-> "o", P |-> "p", Q |-> "q", R |-> "r",
     S |-> "s", T |-> "t", U |-> "u", V |-> "v", W |-> "w", X |-> "x",
     Y |-> "y", Z |-> "z"]

\* str.lower()
str_lower(s) ==
    [i \in 1..Len(s) |-> IF s[i] \in DOMAIN UpperToLower THEN UpperToLower[s[i]] ELSE s[i]]

\* k in s, for two strings
str_contains(k, s) ==
    \E i \in 0..(Len(s) - Len(k)) : \A j \in 1..Len(k) : s[i + j] = k[j]

\* any(k in s for k in keywords)
any_in(keywords, s) == \E n \in 1..Len(keywords) : str_contains(keywords[n], s)

\* x in xs, for a list
in_list(x, xs) == \E n \in 1..Len(xs) : xs[n] = x

\* xs[:n] for n >= 0
take(xs, n) == SubSeq(xs, 1, IF n < Len(xs) THEN n ELSE Len(xs))

\* sum of a list of integers
RECURSIVE sum_list(_)
sum_list(xs) == IF xs = << >> THEN 0 ELSE Head(xs) + sum_list(Tail(xs))

\* [x for x in xs if keep[x]], keep a set
RECURSIVE filter_in(_, _)
filter_in(xs, keep) ==
    IF xs = << >> THEN << >>
    ELSE IF Head(xs) \in keep THEN << Head(xs) >> \o filter_in(Tail(xs), keep)
    ELSE filter_in(Tail(xs), keep)

\* int(n / d) for d > 0: truncation toward zero
trunc_div(n, d) == IF n >= 0 THEN n \div d ELSE -((-n) \div d)

\* round(n / d) to the nearest integer, ties to even, for d > 0
round_div(n, d) ==
    LET fl == n \div d
        r2 == 2 * (n - fl * d)
    IN  IF r2 < d THEN fl
        ELSE IF r2 > d THEN fl + 1
        ELSE IF fl % 2 = 0 THEN fl ELSE fl + 1

-----------------------------------------------------------------------------
(* The static registries.                                                  *)

\* FALLBACK_ENGINES, in dict order
FALLBACK_ENGINES ==
    << [name |-> "PlanVoice-G4-G3-203",     quality |-> 9936],
       [name |-> "EvolveChart-G4-G3-171",   quality |-> 9928],
       [name |-> "ImprovePlan-G4-G3-172",   quality |-> 9935],
       [name |-> "LinguaChart-G4-G3-192",   quality |-> 9928],
       [name |-> "VirtueArchive-G4-G3-152", quality |-> 9930],
       [name |-> "UniteSee-G4-G3-135",      quality |-> 9928],
       [name |-> "PerceiveRise-G4-G3-185",  quality |-> 9924],
       [name |-> "RetainGood-G4-G3-159",    quality |-> 9927],
       [name |-> "WiseJust-G4-G3-119",      quality |-> 9923],
       [name |-> "MuseEthics-G4-G3-142",    quality |-> 9923] >>

\* BOARD_PRESETS: board key |-> primary engine and supporting engines
BOARD_PRESETS ==
    [b \in {"auto", "code-architect", "code-generator", "code-reviewer",
            "bug-detector", "unit-testing", "integration-testing",
            "doc-generator", "security", "optimization", "refactoring",
            "test-verifier", "quality-verifier", "mcp-selector",
            "continuous-learner", "hyperparameter-tuner"} |->
      CASE b = "auto" ->
             [primary_engine |-> "", supporting_engines |-> << >>]
        [] b = "code-architect" ->
             [primary_engine |-> "PlanVoice-G4-G3-203",
              supporting_engines |-> <<"EvolveChart-G4-G3-171", "ImprovePlan-G4-G3-172">>]
        [] b = "code-generator" ->
             [primary_engine |-> "ImprovePlan-G4-G3-172",
              supporting_engines |-> <<"PlanVoice-G4-G3-203", "LinguaChart-G4-G3-192">>]
        [] b = "code-reviewer" ->
             [primary_engine |-> "PerceiveRise-G4-G3-185",
              supporting_engines |-> <<"VirtueArchive-G4-G3-152", "RetainGood-G4-G3-159">>]
        [] b = "bug-detector" ->
             [primary_engine |-> "PerceiveRise-G4-G3-185",
              supporting_engines |-> <<"VirtueArchive-G4-G3-152", "WiseJust-G4-G3-119">>]
        [] b = "unit-testing" ->
             [primary_engine |-> "PerceiveRise-G4-G3-185",
              supporting_engines |-> <<"ImprovePlan-G4-G3-172", "VirtueArchive-G4-G3-152">>]
        [] b = "integration-testing" ->
             [primary_engine |-> "UniteSee-G4-G3-135",
              supporting_engines |-> <<"PerceiveRise-G4-G3-185", "ImprovePlan-G4-G3-172">>]
        [] b = "doc-generator" ->
             [primary_engine |-> "LinguaChart-G4-G3-192",
              supporting_engines |-> <<"WiseJust-G4-G3-119", "RetainGood-G4-G3-159">>]
        [] b = "security" ->
             [primary_engine |-> "VirtueArchive-G4-G3-152",
              supporting_engines |-> <<"PerceiveRise-G4-G3-185", "WiseJust-G4-G3-119">>]
        [] b = "optimization" ->
             [primary_engine |-> "ImprovePlan-G4-G3-172",
              supporting_engines |-> <<"EvolveChart-G4-G3-171", "PerceiveRise-G4-G3-185">>]
        [] b = "refactoring" ->
             [primary_engine |-> "EvolveChart-G4-G3-171",
              supporting_engines |-> <<"PlanVoice-G4-G3-203", "MuseEthics-G4-G3-142">>]
        [] b = "test-verifier" ->
             [primary_engine |-> "VirtueArchive-G4-G3-152",
              supporting_engines |-> <<"PerceiveRise-G4-G3-185", "WiseJust-G4-G3-119">>]
        [] b = "quality-verifier" ->
             [primary_engine |-> "PerceiveRise-G4-G3-185",
              supporting_engines |-> <<"VirtueArchive-G4-G3-152", "ImprovePlan-G4-G3-172">>]
        [] b = "mcp-selector" ->
             [primary_engine |-> "UniteSee-G4-G3-135",
              supporting_engines |-> <<"PlanVoice-G4-G3-203", "WiseJust-G4-G3-119">>]
        [] b = "continuous-learner" ->
             [primary_engine |-> "ImprovePlan-G4-G3-172",
              supporting_engines |-> <<"WiseJust-G4-G3-119", "RetainGood-G4-G3-159">>]
        [] b = "hyperparameter-tuner" ->
             [primary_engine |-> "ImprovePlan-G4-G3-172",
              supporting_engines |-> <<"EvolveChart-G4-G3-171", "PerceiveRise-G4-G3-185">>]]

\* the names of a registry, in dict order: list(self.engines.keys())
engine_names(reg) == [i \in 1..Len(reg) |-> reg[i].name]

\* self.engines[name].quality
engine_quality(reg, name) ==
    LET i == CHOOSE n \in 1..Len(reg) : reg[n].name = name IN reg[i].quality

\* self.engines[name] = AGIEngine(...): a dict assignment keeps the place of
\* an existing key and puts a new key last
dict_set(reg, item) ==
    IF \E n \in 1..Len(reg) : reg[n].name = item.name
    THEN [n \in 1..Len(reg) |-> IF reg[n].name = item.name THEN item ELSE reg[n]]
    ELSE Append(reg, item)

\* OmniCoderAGI._load_engines: the list under primary_engines, each item
\* [name, given, quality] with given "number", "missing" or "invalid"; an
\* item without a name is skipped, a missing quality is 0.99, and a quality
\* float() rejects raises, which ends the loop and keeps what was loaded
\* before it.  No yaml module or no file is the empty list.
RECURSIVE load_items(_, _)
load_items(reg, items) ==
    IF items = << >> THEN reg
    ELSE LET item == Head(items) IN
         IF item.name = "" THEN load_items(reg, Tail(items))
         ELSE IF item.given = "invalid" THEN reg
         ELSE load_items(
                dict_set(reg, [name |-> item.name,
                               quality |-> IF item.given = "missing" THEN 9900
                                           ELSE item.quality]),
                Tail(items))

load_engines(config) == load_items(FALLBACK_ENGINES, config)

-----------------------------------------------------------------------------
(* The keyword router.                                                     *)

\* select_board without task.lower()
select_board_cased(task) ==
    IF any_in(<< <<"b","u","g">>, <<"e","r","r","o","r">>, <<"f","i","x">>, <<"c","r","a","s","h">> >>, task) THEN "bug-detector"
    ELSE IF any_in(<< <<"t","e","s","t">>, <<"v","e","r","i","f","y">>, <<"q","a">> >>, task) THEN "unit-testing"
    ELSE IF any_in(<< <<"c","r","e","a","t","e">>, <<"b","u","i","l","d">>, <<"g","e","n","e","r","a","t","e">>, <<"i","m","p","l","e","m","e","n","t">> >>, task)
    THEN "code-generator"
    ELSE IF any_in(<< <<"d","o","c","u","m","e","n","t">>, <<"c","o","m","m","e","n","t">>, <<"e","x","p","l","a","i","n">>, <<"r","e","a","d","m","e">> >>, task)
    THEN "doc-generator"
    ELSE IF any_in(<< <<"a","r","c","h","i","t","e","c","t","u","r","e">>, <<"d","e","s","i","g","n">>, <<"s","t","r","u","c","t","u","r","e">> >>, task)
    THEN "code-architect"
    ELSE IF any_in(<< <<"s","e","c","u","r","i","t","y">>, <<"v","u","l","n","e","r","a","b","i","l","i","t","y">>, <<"a","u","t","h">> >>, task) THEN "security"
    ELSE IF any_in(<< <<"o","p","t","i","m","i","z","e">>, <<"p","e","r","f","o","r","m","a","n","c","e">>, <<"s","p","e","e","d">> >>, task) THEN "optimization"
    ELSE IF any_in(<< <<"r","e","f","a","c","t","o","r">>, <<"c","l","e","a","n">>, <<"r","e","s","t","r","u","c","t","u","r","e">> >>, task) THEN "refactoring"
    ELSE IF any_in(<< <<"r","e","v","i","e","w">>, <<"c","h","e","c","k">>, <<"a","u","d","i","t">> >>, task) THEN "code-reviewer"
    ELSE IF any_in(<< <<"i","n","t","e","g","r","a","t","e">>, <<"a","p","i">>, <<"c","o","n","n","e","c","t">> >>, task)
    THEN "integration-testing"
    ELSE "auto"

\* OmniCoderAGI.select_board
select_board(task) ==
    LET task_lower == str_lower(task) IN
    IF any_in(<< <<"b","u","g">>, <<"e","r","r","o","r">>, <<"f","i","x">>, <<"c","r","a","s","h">> >>, task_lower)
    THEN "bug-detector"
    ELSE IF any_in(<< <<"t","e","s","t">>, <<"v","e","r","i","f","y">>, <<"q","a">> >>, task_lower)
    THEN "unit-testing"
    ELSE IF any_in(<< <<"c","r","e","a","t","e">>, <<"b","u","i","l","d">>, <<"g","e","n","e","r","a","t","e">>, <<"i","m","p","l","e","m","e","n","t">> >>, task_lower)
    THEN "code-generator"
    ELSE IF any_in(<< <<"d","o","c","u","m","e","n","t">>, <<"c","o","m","m","e","n","t">>, <<"e","x","p","l","a","i","n">>, <<"r","e","a","d","m","e">> >>, task_lower)
    THEN "doc-generator"
    ELSE IF any_in(<< <<"a","r","c","h","i","t","e","c","t","u","r","e">>, <<"d","e","s","i","g","n">>, <<"s","t","r","u","c","t","u","r","e">> >>, task_lower)
    THEN "code-architect"
    ELSE IF any_in(<< <<"s","e","c","u","r","i","t","y">>, <<"v","u","l","n","e","r","a","b","i","l","i","t","y">>, <<"a","u","t","h">> >>, task_lower)
    THEN "security"
    ELSE IF any_in(<< <<"o","p","t","i","m","i","z","e">>, <<"p","e","r","f","o","r","m","a","n","c","e">>, <<"s","p","e","e","d">> >>, task_lower)
    THEN "optimization"
    ELSE IF any_in(<< <<"r","e","f","a","c","t","o","r">>, <<"c","l","e","a","n">>, <<"r","e","s","t","r","u","c","t","u","r","e">> >>, task_lower)
    THEN "refactoring"
    ELSE IF any_in(<< <<"r","e","v","i","e","w">>, <<"c","h","e","c","k">>, <<"a","u","d","i","t">> >>, task_lower)
    THEN "code-reviewer"
    ELSE IF any_in(<< <<"i","n","t","e","g","r","a","t","e">>, <<"a","p","i">>, <<"c","o","n","n","e","c","t">> >>, task_lower)
    THEN "integration-testing"
    ELSE "auto"

\* get_engines_for_board that appends the primary engine after the supporting
\* ones
get_engines_for_board_primary_last(reg, board_name) ==
    IF board_name \notin DOMAIN BOARD_PRESETS \/ board_name = "auto"
    THEN take(engine_names(reg), 3)
    ELSE LET board == BOARD_PRESETS[board_name]
             names == {reg[n].name : n \in 1..Len(reg)}
             found == filter_in(board.supporting_engines \o << board.primary_engine >>,
                                names \ {""})
         IN  IF found # << >> THEN found ELSE take(engine_names(reg), 3)

\* OmniCoderAGI.get_engines_for_board
get_engines_for_board(reg, board_name) ==
    IF board_name \notin DOMAIN BOARD_PRESETS \/ board_name = "auto"
    THEN take(engine_names(reg), 3)
    ELSE LET board == BOARD_PRESETS[board_name]
             names == {reg[n].name : n \in 1..Len(reg)}
             found == filter_in(<< board.primary_engine >> \o board.supporting_engines,
                                names \ {""})
         IN  IF found # << >> THEN found ELSE take(engine_names(reg), 3)

-----------------------------------------------------------------------------
(* The append-only JSON Lines logger.  A dict is a sequence of <<key, value>>
   pairs with distinct keys, in insertion order.  A line of a log file is
   [kind, members]: kind "json" for the text of one JSON object, whose
   members are its key/value pairs as written, "garbage" for text that is
   not JSON, "blank" for an empty line.                                     *)

\* d[key] = value
RECURSIVE dict_put(_, _, _)
dict_put(d, key, value) ==
    IF d = << >> THEN << <<key, value>> >>
    ELSE IF Head(d)[1] = key THEN << <<key, value>> >> \o Tail(d)
    ELSE << Head(d) >> \o dict_put(Tail(d), key, value)

\* {**a, **b}
RECURSIVE dict_merge(_, _)
dict_merge(a, b) ==
    IF b = << >> THEN a
    ELSE dict_merge(dict_put(a, Head(b)[1], Head(b)[2]), Tail(b))

\* key in d
dict_has(d, key) == \E n \in 1..Len(d) : d[n][1] = key

\* d[key], for a key of d
dict_get(d, key) == d[CHOOSE n \in 1..Len(d) : d[n][1] = key][2]

\* json.dumps(payload) + "\n": the members are written in dict order
json_dumps(payload) == [kind |-> "json", members |-> payload]

\* json.loads(line) for a line of kind "json": a repeated key keeps its
\* first place and its last value
json_loads(line) == dict_merge(<< >>, line.members)

\* iso_now(): the clock at second precision
TicksPerSecond == 1
iso_now(now) == now \div TicksPerSecond

\* the payload JSONLogger.append builds
logger_payload(entry, now) == dict_merge(<< <<"timestamp", iso_now(now)>> >>, entry)

\* append with the file opened in mode "w"
logger_append_truncating(lines, entry, now) ==
    << json_dumps(logger_payload(entry, now)) >>

\* the file after JSONLogger.append(entry)
logger_append(lines, entry, now) == Append(lines, json_dumps(logger_payload(entry, now)))

\* xs[start:] with Python's meaning of a negative start
slice_from(xs, start) ==
    LET n    == Len(xs)
        from == IF start < 0 THEN (IF n + start > 0 THEN n + start ELSE 0)
                ELSE (IF start < n THEN start ELSE n)
    IN  SubSeq(xs, from + 1, n)

\* the loop of tail: blank and undecodable lines are skipped
RECURSIVE parse_lines(_)
parse_lines(lines) ==
    IF lines = << >> THEN << >>
    ELSE IF Head(lines).kind = "json"
         THEN << json_loads(Head(lines)) >> \o parse_lines(Tail(lines))
         ELSE parse_lines(Tail(lines))

\* tail that drops the unusable lines before it takes the last limit
logger_tail_filtered_first(lines, limit) == slice_from(parse_lines(lines), -limit)

\* JSONLogger.tail(limit), HistoryLogger.tail(limit)
logger_tail(lines, limit) == parse_lines(slice_from(lines, -limit))

\* the loop of JSONLogger.search: the scan ends once len(results) >= limit,
\* which is tested only after a match has been appended
RECURSIVE search_scan(_, _, _, _, _)
search_scan(lines, key, value, limit, results) ==
    IF lines = << >> THEN results
    ELSE IF Head(lines).kind # "json"
    THEN search_scan(Tail(lines), key, value, limit, results)
    ELSE LET entry == json_loads(Head(lines)) IN
         IF dict_has(entry, key) /\ dict_get(entry, key) = value
         THEN LET more == Append(results, entry) IN
              IF Len(more) >= limit THEN more
              ELSE search_scan(Tail(lines), key, value, limit, more)
         ELSE search_scan(Tail(lines), key, value, limit, results)

\* JSONLogger.search(key, value, limit)
logger_search(lines, key, value, limit) == search_scan(lines, key, value, limit, << >>)

-----------------------------------------------------------------------------
(* The seeded simulator and process_task.                                  *)

\* self.current_quality and self.target_quality as __init__ sets them
InitialQuality == 9927
TargetQuality == 10000
\* the threshold of _verify_result, 0.99
VerifyThreshold == 9900

\* generate_task_id(): timestamp_slug() has second precision, the digest is
\* taken of str(time.time())
generate_task_id(now) == [slug |-> now \div TicksPerSecond, digest |-> now]

\* MCPRouter.DEFAULT_SERVERS: the keys in dict order, each with its languages
DEFAULT_SERVERS ==
    << [key |-> "github", languages |-> << >>],
       [key |-> "typescript", languages |-> << <<"t","y","p","e","s","c","r","i","p","t">>, <<"j","a","v","a","s","c","r","i","p","t">> >>],
       [key |-> "python", languages |-> << <<"p","y","t","h","o","n">> >>],
       [key |-> "java", languages |-> << <<"j","a","v","a">> >>],
       [key |-> "kotlin", languages |-> << <<"k","o","t","l","i","n">> >>],
       [key |-> "csharp", languages |-> << <<"c","s","h","a","r","p">>, <<"f","s","h","a","r","p">> >>],
       [key |-> "go", languages |-> << <<"g","o">> >>],
       [key |-> "php", languages |-> << <<"p","h","p">> >>],
       [key |-> "ruby", languages |-> << <<"r","u","b","y">> >>],
       [key |-> "rust", languages |-> << <<"r","u","s","t">> >>],
       [key |-> "swift", languages |-> << <<"s","w","i","f","t">> >>],
       [key |-> "openstax", languages |-> << >>] >>

\* self.servers[key] = server: in place when the key exists, at the end if not
servers_set(reg, server) ==
    IF \E n \in 1..Len(reg) : reg[n].key = server.key
    THEN [n \in 1..Len(reg) |-> IF reg[n].key = server.key THEN server ELSE reg[n]]
    ELSE Append(reg, server)

\* MCPRouter._load_custom_servers: the saved servers whose key is not there yet
RECURSIVE load_custom_servers(_, _)
load_custom_servers(reg, saved) ==
    IF saved = << >> THEN reg
    ELSE load_custom_servers(
           IF \E n \in 1..Len(reg) : reg[n].key = Head(saved).key
           THEN reg ELSE Append(reg, Head(saved)),
           Tail(saved))

\* the GitHub keywords of route_task
GITHUB_KEYWORDS ==
    << <<"r","e","p","o">>, <<"g","i","t","h","u","b">>, <<"p","u","l","l">>, <<"i","s","s","u","e">>, <<"c","o","m","m","i","t">>, <<"b","r","a","n","c","h">> >>

\* language_keywords of route_task, in dict order
LANGUAGE_KEYWORDS ==
    << [key |-> "typescript",
        keywords |-> << <<"t","y","p","e","s","c","r","i","p","t">>, <<"t","s">>, <<"j","a","v","a","s","c","r","i","p","t">>, <<"j","s">>, <<"r","e","a","c","t">>, <<"n","o","d","e">> >>],
       [key |-> "python",
        keywords |-> << <<"p","y","t","h","o","n">>, <<"p","y">>, <<"d","j","a","n","g","o">>, <<"f","l","a","s","k">>, <<"f","a","s","t","a","p","i">> >>],
       [key |-> "java",
        keywords |-> << <<"j","a","v","a">>, <<"s","p","r","i","n","g">>, <<"m","a","v","e","n">>, <<"g","r","a","d","l","e">> >>],
       [key |-> "kotlin", keywords |-> << <<"k","o","t","l","i","n">>, <<"a","n","d","r","o","i","d">> >>],
       [key |-> "csharp",
        keywords |-> << <<"c","#">>, <<"c","s","h","a","r","p">>, <<".","n","e","t">>, <<"d","o","t","n","e","t">>, <<"u","n","i","t","y">> >>],
       [key |-> "go", keywords |-> << <<"g","o">>, <<"g","o","l","a","n","g">> >>],
       [key |-> "php", keywords |-> << <<"p","h","p">>, <<"l","a","r","a","v","e","l">>, <<"s","y","m","f","o","n","y">> >>],
       [key |-> "ruby", keywords |-> << <<"r","u","b","y">>, <<"r","a","i","l","s">> >>],
       [key |-> "rust", keywords |-> << <<"r","u","s","t">>, <<"c","a","r","g","o">> >>],
       [key |-> "swift", keywords |-> << <<"s","w","i","f","t">>, <<"i","o","s">>, <<"x","c","o","d","e">> >> ] >>

\* no language given: None, or the empty string
NoLanguage == << >>

\* route_task: the servers whose languages hold the language, in dict order
RECURSIVE by_language(_, _)
by_language(reg, lang_lower) ==
    IF reg = << >> THEN << >>
    ELSE (IF \E n \in 1..Len(Head(reg).languages) :
                str_lower(Head(reg).languages[n]) = lang_lower
          THEN << Head(reg).key >> ELSE << >>)
         \o by_language(Tail(reg), lang_lower)

\* route_task: the loop over language_keywords, a key appended unless it is
\* selected already
RECURSIVE by_keyword(_, _, _)
by_keyword(table, task_lower, selected_so_far) ==
    IF table = << >> THEN selected_so_far
    ELSE by_keyword(Tail(table), task_lower,
                    IF any_in(Head(table).keywords, task_lower)
                       /\ ~in_list(Head(table).key, selected_so_far)
                    THEN Append(selected_so_far, Head(table).key)
                    ELSE selected_so_far)

\* MCPRouter.route_task
route_task(reg, task, language) ==
    LET task_lower == str_lower(task)
        github == IF any_in(GITHUB_KEYWORDS, task_lower) THEN << "github" >> ELSE << >>
        by_lang == IF language # NoLanguage THEN by_language(reg, str_lower(language))
                   ELSE << >>
        routed_to == by_keyword(LANGUAGE_KEYWORDS, task_lower, github \o by_lang)
    IN  IF routed_to = << >> THEN << "github", "typescript", "python" >> ELSE routed_to

\* the fixed pool _execute_task takes its suggestions from
SUGGESTIONS ==
    << "Consider adding more edge case tests",
       "Review error handling patterns",
       "Update documentation for new features" >>

\* sum(self.engines[e].quality for e in names if e in self.engines)
quality_sum(reg, names) ==
    sum_list([n \in 1..Len(names) |->
                IF in_list(names[n], engine_names(reg))
                THEN engine_quality(reg, names[n]) ELSE 0])

\* tests_passed with round() in the place of int()
simulate_tests_passed_rounded(tests_total, qsum, n, u) ==
    LET passed == round_div(tests_total * (qsum * 100 + n * u), n * 1000000)
    IN  IF passed < tests_total THEN passed ELSE tests_total

\* tests_passed without min(tests_passed, tests_total)
simulate_tests_passed_uncapped(tests_total, qsum, n, u) ==
    trunc_div(tests_total * (qsum * 100 + n * u), n * 1000000)

\* tests_passed of _execute_task: int(tests_total * (avg_quality + u)), capped
\* at tests_total; qsum / n is avg_quality in units of 0.0001, u in 0.000001
simulate_tests_passed(tests_total, qsum, n, u) ==
    LET raw == trunc_div(tests_total * (qsum * 100 + n * u), n * 1000000)
    IN  IF raw < tests_total THEN raw ELSE tests_total

\* _execute_task with the generator seeded from the task id, not the task
execute_task_reseeded(reg, draws, task_id, task, board, engs, multi_agent, agent_count) ==
    LET n    == IF Len(engs) > 1 THEN Len(engs) ELSE 1
        qsum == quality_sum(reg, engs)
        files == 1 + ((draws.files + task_id.digest) % 5)
    IN  [task_id       |-> task_id,
         status        |-> "completed",
         board_used    |-> board,
         engines_used  |-> engs,
         output        |-> [board |-> IF board \in DOMAIN BOARD_PRESETS THEN board ELSE "auto",
                            multi_agent |-> multi_agent,
                            agent_count |-> agent_count,
                            verified |-> FALSE],
         confidence    |-> round_div(qsum, n),
         files_changed |-> [i \in 1..files |-> i - 1],
         tests_passed  |-> simulate_tests_passed(draws.total, qsum, n, draws.u),
         tests_total   |-> draws.total,
         suggestions   |-> take(SUGGESTIONS, draws.sugg)]

\* OmniCoderAGI._execute_task; draws are what random.Random(seed) yields, in
\* the order the code draws them: randint(1, 5), randint(5, 20),
\* uniform(-0.05, 0.05), randint(1, 3)
execute_task(reg, draws, task_id, task, board, engs, multi_agent, agent_count) ==
    LET n    == IF Len(engs) > 1 THEN Len(engs) ELSE 1
        qsum == quality_sum(reg, engs)
    IN  [task_id       |-> task_id,
         status        |-> "completed",
         board_used    |-> board,
         engines_used  |-> engs,
         output        |-> [board |-> IF board \in DOMAIN BOARD_PRESETS THEN board ELSE "auto",
                            multi_agent |-> multi_agent,
                            agent_count |-> agent_count,
                            verified |-> FALSE],
         confidence    |-> round_div(qsum, n),
         files_changed |-> [i \in 1..draws.files |-> i - 1],
         tests_passed  |-> simulate_tests_passed(draws.total, qsum, n, draws.u),
         tests_total   |-> draws.total,
         suggestions   |-> take(SUGGESTIONS, draws.sugg)]

\* list(set(a + b)): the distinct names, in some order
RECURSIVE distinct(_)
distinct(xs) ==
    IF xs = << >> THEN << >>
    ELSE LET rest == distinct(Tail(xs)) IN
         IF in_list(Head(xs), rest) THEN rest ELSE << Head(xs) >> \o rest

\* _verify_result with avg_quality >= 0.99
verify_result_at_least(reg, result) ==
    LET all_verifiers == distinct(get_engines_for_board(reg, "test-verifier")
                                  \o get_engines_for_board(reg, "quality-verifier"))
        n == IF Len(all_verifiers) > 1 THEN Len(all_verifiers) ELSE 1
    IN  IF quality_sum(reg, all_verifiers) >= VerifyThreshold * n
        THEN [result EXCEPT !.status = "verified", !.output.verified = TRUE]
        ELSE result

\* OmniCoderAGI._verify_result
verify_result(reg, result) ==
    LET all_verifiers == distinct(get_engines_for_board(reg, "test-verifier")
                                  \o get_engines_for_board(reg, "quality-verifier"))
        n == IF Len(all_verifiers) > 1 THEN Len(all_verifiers) ELSE 1
    IN  IF quality_sum(reg, all_verifiers) > VerifyThreshold * n
        THEN [result EXCEPT !.status = "verified", !.output.verified = TRUE]
        ELSE result

\* a session entry that records the status _execute_task set
session_entry_unverified(c) ==
    << <<"type", "task">>, <<"task_id", c.task_id>>, <<"task", c.task>>,
       <<"board", c.board>>, <<"engines", c.engines>>,
       <<"mcp_servers", c.mcp_servers>>, <<"multi_agent", c.multi_agent>>,
       <<"status", "completed">>, <<"confidence", c.result.confidence>> >>

\* the entry process_task gives to session_logger.append
session_entry(c) ==
    << <<"type", "task">>, <<"task_id", c.task_id>>, <<"task", c.task>>,
       <<"board", c.board>>, <<"engines", c.engines>>,
       <<"mcp_servers", c.mcp_servers>>, <<"multi_agent", c.multi_agent>>,
       <<"status", c.result.status>>, <<"confidence", c.result.confidence>> >>

\* the entry _track_learning gives to learning_logger.append
learning_entry(c) ==
    << <<"type", "learning">>, <<"task", c.task>>, <<"engines", c.engines>>,
       <<"status", c.result.status>>, <<"confidence", c.result.confidence>>,
       <<"tests_passed", c.result.tests_passed>>,
       <<"tests_total", c.result.tests_total>> >>

\* _track_learning without the quality nudge
track_quality_frozen(q) == q

\* the quality nudge of _track_learning
track_quality(q) ==
    IF q < TargetQuality
    THEN (IF q + 1 < TargetQuality THEN q + 1 ELSE TargetQuality)
    ELSE q

-----------------------------------------------------------------------------
(* process_task and train_engines as steps of one OmniCoderAGI object.     *)

NoTask == ""

\* the characters of the tasks the command line harness submits
chars(task) ==
    CASE task = "Fix the login bug" -> <<"F","i","x"," ","t","h","e"," ","l","o","g","i","n"," ","b","u","g">>
      [] task = "p1" -> <<"p","1">>
      [] task = "p2" -> <<"p","2">>
      [] task = "Implement a distributed cache system" ->
           <<"I","m","p","l","e","m","e","n","t"," ","a"," ","d","i","s","t","r","i","b","u","t","e","d"," ","c","a","c","h","e"," ","s","y","s","t","e","m">>
      [] task = "Create a GraphQL API with authentication" ->
           <<"C","r","e","a","t","e"," ","a"," ","G","r","a","p","h","Q","L"," ","A","P","I"," ","w","i","t","h"," ","a","u","t","h","e","n","t","i","c","a","t","i","o","n">>
      [] task = "Build a real-time collaboration feature" ->
           <<"B","u","i","l","d"," ","a"," ","r","e","a","l","-","t","i","m","e"," ","c","o","l","l","a","b","o","r","a","t","i","o","n"," ","f","e","a","t","u","r","e">>
      [] task = "Optimize database query performance" ->
           <<"O","p","t","i","m","i","z","e"," ","d","a","t","a","b","a","s","e"," ","q","u","e","r","y"," ","p","e","r","f","o","r","m","a","n","c","e">>
      [] task = "Add comprehensive error handling" ->
           <<"A","d","d"," ","c","o","m","p","r","e","h","e","n","s","i","v","e"," ","e","r","r","o","r"," ","h","a","n","d","l","i","n","g">>
      [] task = "Add voice input support :: Audit current implementation" ->
           <<"A","d","d"," ","v","o","i","c","e"," ","i","n","p","u","t"," ","s","u","p","p","o","r","t"," ",":",":"," ","A","u","d","i","t"," ","c","u","r","r","e","n","t"," ","i","m","p","l","e","m","e","n","t","a","t","i","o","n">>
      [] task = "Add voice input support :: Design upgrade architecture" ->
           <<"A","d","d"," ","v","o","i","c","e"," ","i","n","p","u","t"," ","s","u","p","p","o","r","t"," ",":",":"," ","D","e","s","i","g","n"," ","u","p","g","r","a","d","e"," ","a","r","c","h","i","t","e","c","t","u","r","e">>
      [] task = "Add voice input support :: Generate upgrade code" ->
           <<"A","d","d"," ","v","o","i","c","e"," ","i","n","p","u","t"," ","s","u","p","p","o","r","t"," ",":",":"," ","G","e","n","e","r","a","t","e"," ","u","p","g","r","a","d","e"," ","c","o","d","e">>
      [] task = "Add voice input support :: Run tests and verify" ->
           <<"A","d","d"," ","v","o","i","c","e"," ","i","n","p","u","t"," ","s","u","p","p","o","r","t"," ",":",":"," ","R","u","n"," ","t","e","s","t","s"," ","a","n","d"," ","v","e","r","i","f","y">>
      [] task = "Add voice input support :: Verify code quality" ->
           <<"A","d","d"," ","v","o","i","c","e"," ","i","n","p","u","t"," ","s","u","p","p","o","r","t"," ",":",":"," ","V","e","r","i","f","y"," ","c","o","d","e"," ","q","u","a","l","i","t","y">>
      [] task = "Add voice input support :: Update documentation" ->
           <<"A","d","d"," ","v","o","i","c","e"," ","i","n","p","u","t"," ","s","u","p","p","o","r","t"," ",":",":"," ","U","p","d","a","t","e"," ","d","o","c","u","m","e","n","t","a","t","i","o","n">>
NoTaskId == [slug |-> -1, digest |-> -1]
NoResult ==
    [task_id |-> NoTaskId, status |-> "none", board_used |-> "", engines_used |-> << >>,
     output |-> [board |-> "", multi_agent |-> FALSE, agent_count |-> 0, verified |-> FALSE],
     confidence |-> 0, files_changed |-> << >>, tests_passed |-> 0, tests_total |-> 0,
     suggestions |-> << >>]
NoCall ==
    [task |-> NoTask, board_arg |-> "", verify |-> FALSE, agent_count |-> 0,
     multi_agent |-> FALSE, ret |-> "idle", task_id |-> NoTaskId, board |-> "",
     engines |-> << >>, mcp_servers |-> << >>, result |-> NoResult]
NoCmd ==
    [kind |-> "none", problems |-> << >>, intensity |-> "", next |-> 0,
     quality_before |-> 0, tests_total |-> 0, tests_passed |-> 0,
     improvements |-> << >>, task |-> NoTask, agent_count |-> 0, boards |-> << >>,
     results |-> << >>]
NoMetrics ==
    [quality_before |-> 0, quality_after |-> 0, tests_passed |-> 0, tests_total |-> 0,
     hyperparameters_tuned |-> 0, improvements |-> << >>]

\* the arguments of a process_task call that is about to start
new_call(task, board, multi_agent, agent_count, verify, ret) ==
    [NoCall EXCEPT !.task = task, !.board_arg = board, !.verify = verify,
                   !.multi_agent = multi_agent, !.agent_count = agent_count,
                   !.ret = ret]

\* cmd_run: process_task(task, board, multi_agent = multi or agents > 1,
\* agent_count = max(1, agents), verify = not no_verify)
StartRun(task, board, multi, agents, verify) ==
    /\ pc = "idle"
    /\ commands < budget
    /\ commands' = commands + 1
    /\ call' = new_call(task, board, multi \/ agents > 1,
                        IF agents > 1 THEN agents ELSE 1, verify, "idle")
    /\ pc' = "pt_begin"
    /\ UNCHANGED << engines, current_quality, clock, rng, session_log,
                    learning_log, upgrade_log, hyperparameter_log, cmd, returned,
                    metrics, history, budget, routeVars, settingsVars, extVars, logVars >>

\* process_task up to the end of _execute_task: the task id, the board, the
\* engines, the servers and the simulated result
PTBegin ==
    /\ pc = "pt_begin"
    /\ LET task_id     == generate_task_id(clock)
           board       == IF call.board_arg = "auto" THEN select_board(chars(call.task))
                          ELSE call.board_arg
           engs        == get_engines_for_board(engines, board)
           multi_agent == call.multi_agent \/ call.agent_count > 1
       IN  call' = [call EXCEPT
                      !.task_id = task_id, !.board = board, !.engines = engs,
                      !.multi_agent = multi_agent,
                      !.mcp_servers = route_task(servers, chars(call.task), NoLanguage),
                      !.result = execute_task(engines, rng[call.task], task_id, call.task,
                                              board, engs, multi_agent, call.agent_count)]
    /\ pc' = "pt_verify"
    /\ UNCHANGED << engines, current_quality, clock, rng, session_log,
                    learning_log, upgrade_log, hyperparameter_log, cmd, returned,
                    metrics, history, commands, budget, routeVars, settingsVars, extVars, logVars >>

\* process_task: if verify: result = self._verify_result(result)
PTVerify ==
    /\ pc = "pt_verify"
    /\ call' = IF call.verify
               THEN [call EXCEPT !.result = verify_result(engines, call.result)]
               ELSE call
    /\ pc' = "pt_log"
    /\ UNCHANGED << engines, current_quality, clock, rng, session_log,
                    learning_log, upgrade_log, hyperparameter_log, cmd, returned,
                    metrics, history, commands, budget, routeVars, settingsVars, extVars, logVars >>

\* process_task: self.session_logger.append({...})
PTLogSession ==
    /\ pc = "pt_log"
    /\ session_log' = logger_append(session_log, session_entry(call), clock)
    /\ pc' = "pt_learn"
    /\ UNCHANGED << engines, current_quality, clock, rng, learning_log,
                    upgrade_log, hyperparameter_log, cmd, call, returned, metrics,
                    history, commands, budget, routeVars, settingsVars, extVars, logVars >>

\* process_task: self._track_learning(task, result, engines); return result
PTTrackLearning ==
    /\ pc = "pt_learn"
    /\ learning_log' = logger_append(learning_log, learning_entry(call), clock)
    /\ current_quality' = track_quality(current_quality)
    /\ returned' = call.result
    /\ history' = history \cup { [task |-> call.task, board |-> call.board_arg,
                                  result |-> call.result] }
    /\ pc' = call.ret
    /\ UNCHANGED << engines, clock, rng, session_log, upgrade_log,
                    hyperparameter_log, cmd, call, metrics, commands, budget,
                    routeVars, settingsVars, extVars, logVars >>

\* the problems train_engines uses when it is given none
DEFAULT_PROBLEMS ==
    << "Implement a distributed cache system",
       "Create a GraphQL API with authentication",
       "Build a real-time collaboration feature",
       "Optimize database query performance",
       "Add comprehensive error handling" >>

\* the table with the values of medium and high exchanged
intensity_multiplier_swapped(intensity) ==
    CASE intensity = "low" -> 1
      [] intensity = "medium" -> 10
      [] intensity = "high" -> 5
      [] intensity = "extreme" -> 50
      [] OTHER -> 10

\* intensity_multiplier.get(intensity, 0.001)
intensity_multiplier(intensity) ==
    CASE intensity = "low" -> 1
      [] intensity = "medium" -> 5
      [] intensity = "high" -> 10
      [] intensity = "extreme" -> 50
      [] OTHER -> 10

\* train_engines up to its loop
StartTrain(problems, intensity) ==
    /\ pc = "idle"
    /\ commands < budget
    /\ commands' = commands + 1
    /\ LET used == IF problems = << >> THEN DEFAULT_PROBLEMS ELSE problems
       IN  cmd' = [NoCmd EXCEPT
                     !.kind = "train", !.problems = used, !.intensity = intensity,
                     !.next = 1, !.quality_before = current_quality,
                     !.tests_total = Len(used) * 10]
    /\ pc' = "tr_loop"
    /\ UNCHANGED << engines, current_quality, clock, rng, session_log,
                    learning_log, upgrade_log, hyperparameter_log, call, returned,
                    metrics, history, budget, routeVars, settingsVars, extVars, logVars >>

\* train_engines: result = self.process_task(problem, verify=True)
TrainCall ==
    /\ pc = "tr_loop"
    /\ cmd.next <= Len(cmd.problems)
    /\ call' = new_call(cmd.problems[cmd.next], "auto", FALSE, 1, TRUE, "tr_after")
    /\ pc' = "pt_begin"
    /\ UNCHANGED << engines, current_quality, clock, rng, session_log,
                    learning_log, upgrade_log, hyperparameter_log, cmd, returned,
                    metrics, history, commands, budget, routeVars, settingsVars, extVars, logVars >>

\* train_engines: the rest of the loop body, after process_task returned
TrainAfter ==
    /\ pc = "tr_after"
    /\ cmd' = [cmd EXCEPT
                 !.tests_passed = @ + returned.tests_passed,
                 !.improvements = IF returned.confidence > 9900
                                  THEN Append(@, cmd.next) ELSE @,
                 !.next = @ + 1]
    /\ pc' = "tr_loop"
    /\ UNCHANGED << engines, current_quality, clock, rng, session_log,
                    learning_log, upgrade_log, hyperparameter_log, call, returned,
                    metrics, history, commands, budget, routeVars, settingsVars, extVars, logVars >>

\* the improvement without min(target - current, ...)
trained_quality_unclamped(q, intensity, count) ==
    q + intensity_multiplier(intensity) * count

\* the quality train_engines leaves: the improvement is
\* min(target - current, multiplier * len(problems))
trained_quality(q, intensity, count) ==
    LET room == TargetQuality - q
        gain == intensity_multiplier(intensity) * count
    IN  q + (IF room < gain THEN room ELSE gain)

\* the entry train_engines gives to learning_logger.append
training_entry(c, m) ==
    << <<"type", "training">>, <<"intensity", c.intensity>>,
       <<"problems_count", Len(c.problems)>>,
       <<"quality_before", m.quality_before>>, <<"quality_after", m.quality_after>>,
       <<"tests_passed", m.tests_passed>>, <<"tests_total", m.tests_total>> >>

\* train_engines after its loop: the improvement, the metrics, the log entry
TrainFinish ==
    /\ pc = "tr_loop"
    /\ cmd.next > Len(cmd.problems)
    /\ LET after == trained_quality(current_quality, cmd.intensity, Len(cmd.problems))
           m     == [quality_before |-> cmd.quality_before,
                     quality_after |-> after,
                     tests_passed |-> cmd.tests_passed,
                     tests_total |-> cmd.tests_total,
                     hyperparameters_tuned |-> Len(engines) * 5,
                     improvements |-> cmd.improvements]
       IN  /\ current_quality' = after
           /\ metrics' = m
           /\ learning_log' = logger_append(learning_log, training_entry(cmd, m), clock)
    /\ pc' = "idle"
    /\ UNCHANGED << engines, clock, rng, session_log, upgrade_log,
                    hyperparameter_log, cmd, call, returned, history, commands,
                    budget, routeVars, settingsVars, extVars, logVars >>

\* the boards run_multi_agent_task uses when it is given none
DEFAULT_MULTI_BOARDS == << "code-generator", "code-architect", "optimization" >>

\* the boards the loop of run_multi_agent_task visits: boards[:agent_count],
\* boards being the first agent_count default boards when none is given
multi_boards(boards, agent_count) ==
    take(IF boards = << >> THEN take(DEFAULT_MULTI_BOARDS, agent_count) ELSE boards,
         agent_count)

\* results.sort(...) done as an ascending sort followed by a reversal
RECURSIVE sort_by_confidence_reversed(_)
sort_by_confidence_reversed(results) ==
    IF results = << >> THEN << >>
    ELSE LET sorted == sort_by_confidence_reversed(SubSeq(results, 1, Len(results) - 1))
             r      == results[Len(results)]
             ahead  == {n \in 1..Len(sorted) : sorted[n].confidence > r.confidence}
         IN  SubSeq(sorted, 1, Cardinality(ahead)) \o << r >>
             \o SubSeq(sorted, Cardinality(ahead) + 1, Len(sorted))

\* results.sort(key=lambda r: r.confidence, reverse=True): list.sort is
\* stable, with reverse too, so a result goes behind every earlier result of
\* the same or a higher confidence
RECURSIVE sort_by_confidence(_)
sort_by_confidence(results) ==
    IF results = << >> THEN << >>
    ELSE LET sorted == sort_by_confidence(SubSeq(results, 1, Len(results) - 1))
             r      == results[Len(results)]
             ahead  == {n \in 1..Len(sorted) : sorted[n].confidence >= r.confidence}
         IN  SubSeq(sorted, 1, Cardinality(ahead)) \o << r >>
             \o SubSeq(sorted, Cardinality(ahead) + 1, Len(sorted))

\* cmd_multi: run_multi_agent_task(task, agent_count, boards) up to its loop
StartMulti(task, agent_count, boards) ==
    /\ pc = "idle"
    /\ commands < budget
    /\ commands' = commands + 1
    /\ cmd' = [NoCmd EXCEPT
                 !.kind = "multi", !.task = task, !.agent_count = agent_count,
                 !.boards = multi_boards(boards, agent_count), !.next = 1]
    /\ pc' = "ma_loop"
    /\ UNCHANGED << engines, current_quality, clock, rng, session_log,
                    learning_log, upgrade_log, hyperparameter_log, call, returned,
                    metrics, history, budget, routeVars, settingsVars, extVars, logVars >>

\* run_multi_agent_task: result = self.process_task(task, board=board,
\* multi_agent=True, agent_count=1, verify=True)
MultiCall ==
    /\ pc = "ma_loop"
    /\ cmd.next <= Len(cmd.boards)
    /\ call' = new_call(cmd.task, cmd.boards[cmd.next], TRUE, 1, TRUE, "ma_after")
    /\ pc' = "pt_begin"
    /\ UNCHANGED << engines, current_quality, clock, rng, session_log,
                    learning_log, upgrade_log, hyperparameter_log, cmd, returned,
                    metrics, history, commands, budget, routeVars, settingsVars, extVars, logVars >>

\* run_multi_agent_task: results.append(result)
MultiAfter ==
    /\ pc = "ma_after"
    /\ cmd' = [cmd EXCEPT !.results = Append(@, returned), !.next = @ + 1]
    /\ pc' = "ma_loop"
    /\ UNCHANGED << engines, current_quality, clock, rng, session_log,
                    learning_log, upgrade_log, hyperparameter_log, call, returned,
                    metrics, history, commands, budget, routeVars, settingsVars, extVars, logVars >>

\* run_multi_agent_task after its loop: the sort, and the return of results
MultiFinish ==
    /\ pc = "ma_loop"
    /\ cmd.next > Len(cmd.boards)
    /\ cmd' = [cmd EXCEPT !.results = sort_by_confidence(@)]
    /\ pc' = "idle"
    /\ UNCHANGED << engines, current_quality, clock, rng, session_log,
                    learning_log, upgrade_log, hyperparameter_log, call, returned,
                    metrics, history, commands, budget, routeVars, settingsVars, extVars, logVars >>

\* UpgradeManager.build_upgrade_plan: the six steps, whatever the description
UPGRADE_STEPS ==
    << [name |-> "Analyze Current State", board |-> "code-reviewer", agents |-> 2,
        description |-> "Audit current implementation"],
       [name |-> "Design Upgrade", board |-> "code-architect", agents |-> 2,
        description |-> "Design upgrade architecture"],
       [name |-> "Implement Changes", board |-> "code-generator", agents |-> 3,
        description |-> "Generate upgrade code"],
       [name |-> "Test Changes", board |-> "unit-testing", agents |-> 2,
        description |-> "Run tests and verify"],
       [name |-> "Verify Quality", board |-> "quality-verifier", agents |-> 1,
        description |-> "Verify code quality"],
       [name |-> "Document Changes", board |-> "doc-generator", agents |-> 1,
        description |-> "Update documentation"] >>

build_upgrade_plan(description, mode, now) ==
    [summary |-> description, mode |-> mode, steps |-> UPGRADE_STEPS,
     created_at |-> iso_now(now)]

NoPlan == [summary |-> "", mode |-> "", steps |-> << >>, created_at |-> 0]
NoUpgrade == [plan |-> NoPlan, next |-> 0, results |-> << >>, outcome |-> "none"]

InitUpgrade == upgrade = NoUpgrade

\* the variables the upgrade command leaves alone besides those of the
\* command line interface
aside_upgrade == << routeVars, settingsVars, cmdVars, trainVars, collabVars, browserVars, logVars >>

\* execute_upgrade that takes the steps of the plan last to first
upgrade_call_reversed(plan, n) ==
    LET step == plan.steps[Len(plan.steps) + 1 - n]
    IN  new_call(plan.summary \o " :: " \o step.description, step.board,
                 step.agents > 1, step.agents, TRUE, "up_after")

\* execute_upgrade: the process_task call of the n-th step of the plan:
\* process_task(f"{plan['summary']} :: {step['description']}", board=step["board"],
\* multi_agent=step["agents"] > 1, agent_count=step["agents"], verify=True)
upgrade_call(plan, n) ==
    LET step == plan.steps[n]
    IN  new_call(plan.summary \o " :: " \o step.description, step.board,
                 step.agents > 1, step.agents, TRUE, "up_after")

\* the entry execute_upgrade gives to upgrade_logger.append
upgrade_entry(plan, results) ==
    << <<"type", "upgrade">>, <<"mode", plan.mode>>, <<"summary", plan.summary>>,
       <<"steps_completed", Len(results)>>, <<"status", "completed">> >>

\* cmd_upgrade without --token and --from-file: the default description is
\* refused; --auto runs run_self_upgrade (mode "self"); otherwise the plan is
\* built and, with --execute, executed
StartUpgrade(description, mode, execute, auto) ==
    /\ pc = "idle"
    /\ commands < budget
    /\ commands' = commands + 1
    /\ IF description = "General improvements"
       THEN /\ upgrade' = [NoUpgrade EXCEPT !.outcome = "refused"]
            /\ pc' = "idle"
       ELSE LET plan == build_upgrade_plan(description, IF auto THEN "self" ELSE mode,
                                           clock)
            IN  IF auto \/ execute
                THEN /\ upgrade' = [plan |-> plan, next |-> 1, results |-> << >>,
                                    outcome |-> "running"]
                     /\ pc' = "up_loop"
                ELSE /\ upgrade' = [plan |-> plan, next |-> 0, results |-> << >>,
                                    outcome |-> "planned"]
                     /\ pc' = "idle"
    /\ UNCHANGED << engines, current_quality, clock, rng, session_log,
                    learning_log, upgrade_log, hyperparameter_log, cmd, call,
                    returned, metrics, history, budget, aside_upgrade >>

\* execute_upgrade: result = self.agi.process_task(...) for the next step
UpgradeCall ==
    /\ pc = "up_loop"
    /\ upgrade.next <= Len(upgrade.plan.steps)
    /\ call' = upgrade_call(upgrade.plan, upgrade.next)
    /\ pc' = "pt_begin"
    /\ UNCHANGED << engines, current_quality, clock, rng, session_log,
                    learning_log, upgrade_log, hyperparameter_log, cmd, returned,
                    metrics, history, commands, budget, upgrade, aside_upgrade >>

\* execute_upgrade: results.append({"step", "status", "confidence"})
UpgradeAfter ==
    /\ pc = "up_after"
    /\ upgrade' = [upgrade EXCEPT
                     !.results = Append(@, [step |-> upgrade.plan.steps[upgrade.next].name,
                                            status |-> returned.status,
                                            confidence |-> returned.confidence]),
                     !.next = @ + 1]
    /\ pc' = "up_loop"
    /\ UNCHANGED << engines, current_quality, clock, rng, session_log,
                    learning_log, upgrade_log, hyperparameter_log, cmd, call,
                    returned, metrics, history, commands, budget, aside_upgrade >>

\* execute_upgrade after its loop: the upgrade log entry, and the return
UpgradeFinish ==
    /\ pc = "up_loop"
    /\ upgrade.next > Len(upgrade.plan.steps)
    /\ upgrade_log' = logger_append(upgrade_log,
                                    upgrade_entry(upgrade.plan, upgrade.results), clock)
    /\ upgrade' = [upgrade EXCEPT !.outcome = "completed"]
    /\ pc' = "idle"
    /\ UNCHANGED << engines, current_quality, clock, rng, session_log,
                    learning_log, hyperparameter_log, cmd, call, returned, metrics,
                    history, commands, budget, aside_upgrade >>

\* a step raises: the open or the write of session_logger.append fails, the
\* exception leaves process_task and execute_upgrade, and main() exits
UpgradeStepRaises ==
    /\ pc = "pt_log"
    /\ call.ret = "up_after"
    /\ upgrade' = [upgrade EXCEPT !.outcome = "raised"]
    /\ pc' = "idle"
    /\ UNCHANGED << engines, current_quality, clock, rng, session_log,
                    learning_log, upgrade_log, hyperparameter_log, cmd, call,
                    returned, metrics, history, commands, budget, aside_upgrade >>

\* a new process: OmniCoderAGI.__init__ over the same files
Restart ==
    /\ pc = "idle"
    /\ current_quality' = InitialQuality
    /\ UNCHANGED << engines, clock, rng, session_log, learning_log, upgrade_log,
                    hyperparameter_log, pc, cmd, call, returned, metrics, history,
                    commands, budget, routeVars, settingsVars, extVars, logVars >>

-----------------------------------------------------------------------------
(* SettingsManager: a JSON document in memory, loaded from and saved whole to
   settings/default.json.  A JSON value is a record: its kind, the text of a
   scalar, and the members of a mapping (or the items of a list, under empty
   keys).  Keys are texts, a dot path is a text.                            *)

json_str(s) == [kind |-> "str", scalar |-> s, items |-> << >>]
json_num(s) == [kind |-> "num", scalar |-> s, items |-> << >>]
json_bool(s) == [kind |-> "bool", scalar |-> s, items |-> << >>]
json_null == [kind |-> "null", scalar |-> "", items |-> << >>]
json_dict(members) == [kind |-> "dict", scalar |-> "", items |-> members]
json_list(xs) ==
    [kind |-> "list", scalar |-> "", items |-> [n \in 1..Len(xs) |-> << << >>, xs[n] >>]]

\* isinstance(value, dict)
is_dict(value) == value.kind = "dict"

\* SettingsManager._default_settings()
default_settings ==
    json_dict(<<
      << <<"v","e","r","s","i","o","n">>, json_str("2.0.0") >>,
      << <<"a","p","p">>, json_dict(<<
           << <<"n","a","m","e">>, json_str("OmniCoder-AGI") >>,
           << <<"t","h","e","m","e">>, json_str("dark") >>,
           << <<"a","u","t","o","S","a","v","e">>, json_bool("true") >>,
           << <<"l","e","a","r","n","i","n","g","M","o","d","e">>, json_str("continuous") >> >>) >>,
      << <<"g","i","t","h","u","b">>, json_dict(<<
           << <<"u","s","e","r","n","a","m","e">>, json_str("pythpythpython") >>,
           << <<"e","m","a","i","l">>, json_str("pyth.pyth.python@gmail.com") >>,
           << <<"a","u","t","o","P","u","s","h","M","e","r","g","e">>, json_bool("true") >>,
           << <<"d","e","f","a","u","l","t","B","r","a","n","c","h">>, json_str("main") >>,
           << <<"p","a","t">>, json_str("") >> >>) >>,
      << <<"a","g","i">>, json_dict(<<
           << <<"d","e","f","a","u","l","t","B","o","a","r","d">>, json_str("auto") >>,
           << <<"m","u","l","t","i","A","g","e","n","t","M","o","d","e">>, json_bool("false") >>,
           << <<"t","a","r","g","e","t","Q","u","a","l","i","t","y">>, json_num("1.0") >>,
           << <<"c","u","r","r","e","n","t","Q","u","a","l","i","t","y">>, json_num("0.9927") >>,
           << <<"m","a","x","A","g","e","n","t","s">>, json_num("5") >> >>) >>,
      << <<"m","c","p">>, json_dict(<<
           << <<"a","c","t","i","v","e","S","e","r","v","e","r","s">>,
              json_list([n \in 1..Len(DEFAULT_SERVERS) |-> json_str(DEFAULT_SERVERS[n].key)]) >>,
           << <<"a","u","t","o","C","o","n","n","e","c","t">>, json_bool("true") >>,
           << <<"c","u","s","t","o","m","S","e","r","v","e","r","s">>, json_list(<< >>) >> >>) >>,
      << <<"t","r","a","c","k","i","n","g">>, json_dict(<<
           << <<"e","n","a","b","l","e","d">>, json_bool("true") >>,
           << <<"s","a","v","e","S","e","s","s","i","o","n","D","a","t","a">>, json_bool("true") >>,
           << <<"e","x","p","o","r","t","F","o","r","m","a","t">>, json_str("json") >> >>) >>,
      << <<"a","p","i">>, json_dict(<<
           << <<"e","n","d","p","o","i","n","t","s">>, json_list(<< >>) >>,
           << <<"t","o","k","e","n","s">>, json_dict(<< >>) >> >>) >>,
      << <<"u","p","g","r","a","d","e">>, json_dict(<<
           << <<"a","u","t","o","U","p","g","r","a","d","e">>, json_bool("false") >>,
           << <<"u","p","g","r","a","d","e","F","r","e","q","u","e","n","c","y">>, json_str("daily") >>,
           << <<"l","a","s","t","U","p","g","r","a","d","e">>, json_null >> >>) >> >>)

\* key.split("."): a text without a dot is one key, the empty text one empty key
RECURSIVE split_dots(_, _)
split_dots(cs, word) ==
    IF cs = << >> THEN << word >>
    ELSE IF Head(cs) = "." THEN << word >> \o split_dots(Tail(cs), << >>)
    ELSE split_dots(Tail(cs), Append(word, Head(cs)))

split_path(key) == split_dots(key, << >>)

\* the text of a document is a sequence of tokens
token(t, key, scalar) == [t |-> t, key |-> key, text |-> scalar]

\* json.dumps(value, indent=2): the members in dict order
RECURSIVE json_dumps_value(_)
RECURSIVE json_dumps_members(_)
RECURSIVE json_dumps_items(_)
json_dumps_value(value) ==
    IF value.kind = "dict"
    THEN << token("{", << >>, "") >> \o json_dumps_members(value.items)
            \o << token("}", << >>, "") >>
    ELSE IF value.kind = "list"
    THEN << token("[", << >>, "") >> \o json_dumps_items(value.items)
            \o << token("]", << >>, "") >>
    ELSE << token(value.kind, << >>, value.scalar) >>

json_dumps_members(members) ==
    IF members = << >> THEN << >>
    ELSE << token("key", Head(members)[1], "") >> \o json_dumps_value(Head(members)[2])
            \o json_dumps_members(Tail(members))

json_dumps_items(xs) ==
    IF xs = << >> THEN << >>
    ELSE json_dumps_value(Head(xs)[2]) \o json_dumps_items(Tail(xs))

\* what the decoder returns: whether a value was read, the value, the text left
NotDecoded == [ok |-> FALSE, value |-> json_null, rest |-> << >>]

\* the JSON decoder on a text
RECURSIVE json_decode_value(_)
RECURSIVE json_decode_members(_, _)
RECURSIVE json_decode_items(_, _)
json_decode_value(tokens) ==
    IF tokens = << >> THEN NotDecoded
    ELSE LET first == Head(tokens) IN
         IF first.t = "{" THEN json_decode_members(Tail(tokens), << >>)
         ELSE IF first.t = "[" THEN json_decode_items(Tail(tokens), << >>)
         ELSE IF first.t \in {"str", "num", "bool", "null"}
         THEN [ok |-> TRUE,
               value |-> [kind |-> first.t, scalar |-> first.text, items |-> << >>],
               rest |-> Tail(tokens)]
         ELSE NotDecoded

json_decode_members(tokens, members) ==
    IF tokens = << >> THEN NotDecoded
    ELSE IF Head(tokens).t = "}"
    THEN [ok |-> TRUE, value |-> json_dict(members), rest |-> Tail(tokens)]
    ELSE IF Head(tokens).t = "key"
    THEN LET member == json_decode_value(Tail(tokens)) IN
         IF member.ok
         THEN json_decode_members(member.rest,
                                  dict_put(members, Head(tokens).key, member.value))
         ELSE NotDecoded
    ELSE NotDecoded

json_decode_items(tokens, xs) ==
    IF tokens = << >> THEN NotDecoded
    ELSE IF Head(tokens).t = "]"
    THEN [ok |-> TRUE, value |-> json_list(xs), rest |-> Tail(tokens)]
    ELSE LET item == json_decode_value(tokens) IN
         IF item.ok THEN json_decode_items(item.rest, Append(xs, item.value))
         ELSE NotDecoded

\* json.loads(text) returns a value when the whole text is one document
json_loads_ok(tokens) ==
    LET decoded == json_decode_value(tokens) IN decoded.ok /\ decoded.rest = << >>

json_loads_value(tokens) == json_decode_value(tokens).value

\* the settings file when it does not exist
NoSettingsFile == [exists |-> FALSE, tokens |-> << >>]

\* SettingsManager._load(): the document of the file, the defaults when the
\* file is missing or is not a JSON document
settings_load(file) ==
    IF file.exists /\ json_loads_ok(file.tokens) THEN json_loads_value(file.tokens)
    ELSE default_settings

\* the loop of SettingsManager.get: value.get(k, default) while value is a
\* dict, default as soon as it is not
RECURSIVE settings_get_keys(_, _, _)
settings_get_keys(value, keys, default) ==
    IF keys = << >> THEN value
    ELSE IF is_dict(value)
    THEN settings_get_keys(IF dict_has(value.items, Head(keys))
                           THEN dict_get(value.items, Head(keys))
                           ELSE default,
                           Tail(keys), default)
    ELSE default

\* SettingsManager.get(key, default)
settings_get(settings, key, default) == settings_get_keys(settings, split_path(key), default)

\* set that only requires the document itself to be a mapping
RECURSIVE settings_set_passes_top(_, _)
settings_set_passes_top(target, keys) == is_dict(target)

\* SettingsManager.set reaches its last line: every level it steps through
\* is a dict (on any other value `k not in target` or the subscript raises)
RECURSIVE settings_set_passes(_, _)
settings_set_passes(target, keys) ==
    /\ is_dict(target)
    /\ \/ Len(keys) = 1
       \/ ~dict_has(target.items, Head(keys))
       \/ settings_set_passes(dict_get(target.items, Head(keys)), Tail(keys))

\* set that stores the value under its last key at the top of the document
RECURSIVE settings_set_flat(_, _, _)
settings_set_flat(target, keys, value) ==
    json_dict(dict_put(target.items, keys[Len(keys)], value))

\* the loop and the assignment of SettingsManager.set on the document
RECURSIVE settings_set_keys(_, _, _)
settings_set_keys(target, keys, value) ==
    IF Len(keys) = 1 THEN json_dict(dict_put(target.items, keys[1], value))
    ELSE LET k == Head(keys)
             inner == IF dict_has(target.items, k) THEN dict_get(target.items, k)
                      ELSE json_dict(<< >>)
         IN  json_dict(dict_put(target.items, k, settings_set_keys(inner, Tail(keys), value)))

\* Path.write_text, second half: the text written at offset 0 of the file as
\* it is, what lies beyond the written text stays
file_write(tokens, data) ==
    IF Len(data) >= Len(tokens) THEN data
    ELSE data \o SubSeq(tokens, Len(data) + 1, Len(tokens))

-----------------------------------------------------------------------------
(* The route harness: select_board applied to texts of up to MaxWords words. *)

Words ==
    { <<"F","i","x">>, <<"b","u","g">>, <<"c","r","a","s","h">>, <<"p","r","e","f","i","x">>, <<"Q","A">>, <<"l","a","t","e","s","t">>, <<"b","u","i","l","d">>,
      <<"R","E","A","D","M","E">>, <<"d","e","s","i","g","n">>, <<"A","u","t","h","o","r">>, <<"s","p","e","e","d">>, <<"c","l","e","a","n">>, <<"a","u","d","i","t">>,
      <<"A","P","I">>, <<"x","y","z">>, <<"l","o","g","i","n">> }

Scenarios ==
    { <<"F","i","x"," ","t","h","e"," ","l","o","g","i","n"," ","b","u","g">>, <<"W","r","i","t","e"," ","d","o","c","u","m","e","n","t","a","t","i","o","n"," ","f","o","r"," ","t","h","e"," ","A","P","I">>,
      <<"r","a","n","d","o","m"," ","u","n","r","e","l","a","t","e","d"," ","t","e","x","t"," ","x","y","z">> }

RECURSIVE TextsOf(_)
TextsOf(n) ==
    IF n <= 1 THEN Words
    ELSE TextsOf(n - 1) \cup { t \o <<" ">> \o w : t \in TextsOf(n - 1), w \in Words }

RouteTexts == TextsOf(MaxWords) \cup Scenarios

NoText == << >>

NotResolved == [board_name |-> "none", engines |-> << >>]

NotRouted == [task |-> << >>, language |-> << >>, servers |-> << >>]

InitRoute ==
    /\ text = NoText
    /\ selected = "none"
    /\ resolved = NotResolved
    /\ servers = DEFAULT_SERVERS
    /\ mcp_config = << >>
    /\ routed = NotRouted

SelectBoard(task) ==
    /\ text = NoText
    /\ text' = task
    /\ selected' = select_board(task)
    /\ UNCHANGED << resolved, mcpVars, cliVars, logVars, settingsVars, extVars >>

\* the keys get_engines_for_board is asked for: every preset, and keys that
\* are none
BoardKeys == DOMAIN BOARD_PRESETS \cup {"no-such-board", ""}

\* MCPRouter.add_server: the server is set and every server is saved
AddServer(server) ==
    /\ Len(servers) < Len(DEFAULT_SERVERS) + MaxServers
    /\ servers' = servers_set(servers, server)
    /\ mcp_config' = servers'
    /\ routed' = NotRouted
    /\ UNCHANGED << text, selected, resolved, cliVars, logVars, settingsVars, extVars >>

\* cmd_mcp route: agi.mcp_router.route_task(args.task, args.language)
RouteTask(task, language) ==
    /\ routed' = [task |-> task, language |-> language,
                  servers |-> route_task(servers, task, language)]
    /\ UNCHANGED << servers, mcp_config, text, selected, resolved, cliVars, logVars, settingsVars, extVars >>

\* MCPRouter.__init__ in a new process: the defaults, then the saved servers
NewRouter ==
    /\ servers' = load_custom_servers(DEFAULT_SERVERS, mcp_config)
    /\ routed' = NotRouted
    /\ UNCHANGED << mcp_config, text, selected, resolved, cliVars, logVars, settingsVars, extVars >>

\* engines_for = agi.get_engines_for_board(board_name)
ResolveBoard(board_name) ==
    /\ resolved = NotResolved
    /\ resolved' = [board_name |-> board_name,
                    engines |-> get_engines_for_board(engines, board_name)]
    /\ UNCHANGED << text, selected, mcpVars, cliVars, logVars, settingsVars, extVars >>

-----------------------------------------------------------------------------
(* The log harness: one JSONLogger file, appended to by the program and by
   other writers, read by tail and search.                                  *)

LogEntries ==
    { << <<"type", "task">>, <<"task_id", "t1">> >>,
      << <<"type", "task">>, <<"task_id", "t2">> >> }

NotRead == [op |-> "none", limit |-> 0, key |-> "", value |-> "", entries |-> << >>]

InitLog ==
    /\ log = << >>
    /\ acked = << >>
    /\ lastRead = NotRead

\* JSONLogger.append(entry), called at time clock
LogAppend(entry) ==
    /\ Len(log) < MaxLines
    /\ log' = logger_append(log, entry, clock)
    /\ acked' = Append(acked, logger_payload(entry, clock))
    /\ lastRead' = NotRead
    /\ UNCHANGED << cliVars, routeVars, settingsVars, extVars >>

\* another writer adds a line that is not a JSON document
LogExternalWrite(kind) ==
    /\ Len(log) < MaxLines
    /\ log' = Append(log, [kind |-> kind, members |-> << >>])
    /\ lastRead' = NotRead
    /\ UNCHANGED << acked, cliVars, routeVars, settingsVars, extVars >>

\* JSONLogger.tail(limit)
LogTail(limit) ==
    /\ lastRead' = [op |-> "tail", limit |-> limit, key |-> "", value |-> "",
                    entries |-> logger_tail(log, limit)]
    /\ UNCHANGED << log, acked, cliVars, routeVars, settingsVars, extVars >>

\* JSONLogger.search(key, value, limit)
LogSearch(key, value, limit) ==
    /\ lastRead' = [op |-> "search", limit |-> limit, key |-> key, value |-> value,
                    entries |-> logger_search(log, key, value, limit)]
    /\ UNCHANGED << log, acked, cliVars, routeVars, settingsVars, extVars >>

-----------------------------------------------------------------------------
(* The settings harness: processes that each build a SettingsManager on the
   one settings file and call get, and set once, as the settings command does. *)

Processes == {"p1", "p2"}

\* fresh: no set call had begun when the manager loaded the file
NoManager == [pc |-> "none", settings |-> json_null, key |-> << >>, value |-> json_null,
              fresh |-> FALSE]

NotGot == [by |-> "none", key |-> << >>, default |-> json_null,
           settings |-> json_null, value |-> json_null]

InitSettings ==
    /\ managers = [p \in Processes |-> NoManager]
    /\ got = NotGot

\* SettingsManager(): self.settings = self._load()
NewManager(p) ==
    /\ managers[p].pc = "none"
    /\ managers' = [managers EXCEPT
                       ![p].pc = "ready",
                       ![p].settings = settings_load(settings_file),
                       ![p].fresh = \A q \in Processes : managers[q].pc \in {"none", "ready"}]
    /\ got' = NotGot
    /\ UNCHANGED << settings_file, cliVars, routeVars, logVars, extVars >>

\* SettingsManager.get(key, default)
SettingsGet(p, key, default) ==
    /\ managers[p].pc = "ready"
    /\ got' = [by |-> p, key |-> key, default |-> default,
               settings |-> managers[p].settings,
               value |-> settings_get(managers[p].settings, key, default)]
    /\ UNCHANGED << settings_file, managers, cliVars, routeVars, logVars, extVars >>

\* SettingsManager.set(key, value) up to the open of write_text in save(),
\* which truncates the file; a set that raises ends the process
SettingsSet(p, key, value) ==
    /\ managers[p].pc = "ready"
    /\ got' = NotGot
    /\ IF settings_set_passes(managers[p].settings, split_path(key))
       THEN /\ managers' = [managers EXCEPT
                               ![p].pc = "writing",
                               ![p].settings = settings_set_keys(managers[p].settings,
                                                                 split_path(key), value),
                               ![p].key = key,
                               ![p].value = value]
            /\ settings_file' = [exists |-> TRUE, tokens |-> << >>]
       ELSE /\ managers' = [managers EXCEPT ![p].pc = "raised", ![p].key = key,
                                            ![p].value = value]
            /\ UNCHANGED settings_file
    /\ UNCHANGED << cliVars, routeVars, logVars, extVars >>

\* the write and the close of write_text: set returns
SaveWrite(p) ==
    /\ managers[p].pc = "writing"
    /\ settings_file' = [exists |-> TRUE,
                         tokens |-> file_write(settings_file.tokens,
                                               json_dumps_value(managers[p].settings))]
    /\ managers' = [managers EXCEPT ![p].pc = "set"]
    /\ got' = NotGot
    /\ UNCHANGED << cliVars, routeVars, logVars, extVars >>

-----------------------------------------------------------------------------
(* ExtremeTrainingEngine (training_engine.py): the training history in
   memory and in training_history.json.                                     *)

\* self.training_history[-1000:]
HistoryKept == 1000

\* the history entry of the cycle recorded at time now
history_entry(now, intensity, num_problems) ==
    json_dict(<< << <<"t","i","m","e","s","t","a","m","p">>, json_str(now) >>,
                 << <<"i","n","t","e","n","s","i","t","y">>, json_str(intensity) >>,
                 << <<"n","u","m","_","p","r","o","b","l","e","m","s">>, json_num(num_problems) >> >>)

NoHistoryFile == [exists |-> FALSE, documents |-> << >>]

\* _save_history with [:1000] in place of [-1000:]
save_history_first(entries) ==
    [exists |-> TRUE,
     documents |-> [n \in 1..(IF Len(entries) < HistoryKept THEN Len(entries) ELSE HistoryKept)
                      |-> json_dumps_value(entries[n])]]

\* _save_history: the file holds the documents of training_history[-1000:]
save_history(entries) ==
    LET kept == slice_from(entries, -HistoryKept)
    IN  [exists |-> TRUE, documents |-> [n \in 1..Len(kept) |-> json_dumps_value(kept[n])]]

\* __init__ and _load_history: the entries of the file, none without a file
load_history(file) ==
    IF file.exists
    THEN [n \in 1..Len(file.documents) |-> json_loads_value(file.documents[n])]
    ELSE << >>

\* the first n entries ever recorded
recorded_entries(n) == [i \in 1..n |-> history_entry(i, "extreme", 50)]

\* a new engine over the file that cycles of earlier processes left, n
\* cycles in all
InitTrainOver(n) ==
    /\ history_file = IF n = 0 THEN NoHistoryFile ELSE save_history(recorded_entries(n))
    /\ trainer = [history |-> load_history(history_file), outcome |-> "none",
                  recorded |-> n, earlier |-> n]

InitTrain == InitTrainOver(0)

\* the variables the training harness leaves alone
aside_train == << cliVars, routeVars, logVars, settingsVars, cmdVars, upVars, collabVars, browserVars >>

\* run_training_cycle(engines, num_problems, intensity) with one engine or
\* more: without problems the metrics divide by zero before anything is
\* recorded, otherwise the entry is appended and the history saved
TrainingCycle(num_problems, intensity) ==
    /\ trainer.recorded < trainer.earlier + MaxCycles
    /\ IF num_problems = 0
       THEN /\ trainer' = [trainer EXCEPT !.outcome = "raised"]
            /\ UNCHANGED history_file
       ELSE /\ trainer' = [history |-> Append(trainer.history,
                                              history_entry(trainer.recorded + 1, intensity,
                                                            num_problems)),
                           outcome |-> "returned",
                           recorded |-> trainer.recorded + 1,
                           earlier |-> trainer.earlier]
            /\ history_file' = save_history(trainer'.history)
    /\ UNCHANGED aside_train

\* a new ExtremeTrainingEngine over the same storage directory
RestartTrainer ==
    /\ trainer' = [trainer EXCEPT !.history = load_history(history_file),
                                  !.outcome = "none"]
    /\ UNCHANGED << history_file, aside_train >>

-----------------------------------------------------------------------------
(* The command harness: main() run on one command line after the other, each
   in a process of its own: the settings are loaded, the router is built from
   the saved servers, the handler runs, the process exits.                  *)

\* an option that was not given, an option given with a text
NoArg == [given |-> FALSE, text |-> << >>]
arg(chars_given) == [given |-> TRUE, text |-> chars_given]

\* the same for an option whose text the model keeps as one string
NoStringArg == [given |-> FALSE, string |-> ""]
string_arg(s) == [given |-> TRUE, string |-> s]

\* `not args.x`: the option is missing or empty
falsy(a) == ~a.given \/ a.text = << >>
falsy_string(a) == ~a.given \/ a.string = ""

\* --value of settings set, parsed
NoValue == [given |-> FALSE, value |-> json_null]

NotInvoked == [command |-> "none", missing |-> FALSE, error |-> FALSE, exit |-> 0,
               count |-> 0]

InitCmd ==
    /\ memory_files = << >>
    /\ invoked = NotInvoked

\* the end of main(): a handler that returns ends the process with status 0,
\* one that raises has its message printed and ends it with sys.exit(1)
main_ends(command, missing, error, raised) ==
    [command |-> command, missing |-> missing, error |-> error \/ raised,
     exit |-> IF raised THEN 1 ELSE 0, count |-> invoked.count + 1]

\* the settings file after save() of a document
saved_settings(settings) == [exists |-> TRUE, tokens |-> json_dumps_value(settings)]

\* settings set --key --value
CmdSettingsSet(key, value) ==
    /\ invoked.count < MaxInvocations
    /\ LET settings == settings_load(settings_file) IN
       IF falsy(key) \/ ~value.given
       THEN /\ invoked' = main_ends("settings set", TRUE, TRUE, FALSE)
            /\ UNCHANGED settings_file
       ELSE IF settings_set_passes(settings, split_path(key.text))
       THEN /\ settings_file' = saved_settings(settings_set_keys(settings,
                                                  split_path(key.text), value.value))
            /\ invoked' = main_ends("settings set", FALSE, FALSE, FALSE)
       ELSE /\ invoked' = main_ends("settings set", FALSE, FALSE, TRUE)
            /\ UNCHANGED settings_file
    /\ UNCHANGED << memory_files, managers, got, cliVars, routeVars, logVars, laterVars >>

\* mcp add --url --name --languages: add_server saves every server, then
\* settings.add_mcp_server(url) appends the url to mcp.customServers
CmdMcpAdd(url, server) ==
    /\ invoked.count < MaxInvocations
    /\ LET settings == settings_load(settings_file)
           router == load_custom_servers(DEFAULT_SERVERS, mcp_config)
           listed == settings_get(settings, <<"m","c","p",".","c","u","s","t","o","m","S","e","r","v","e","r","s">>, json_list(<< >>))
           item == << << >>, json_str(url.string) >>
       IN
       IF falsy_string(url)
       THEN /\ invoked' = main_ends("mcp add", TRUE, TRUE, FALSE)
            /\ UNCHANGED << settings_file, servers, mcp_config, routed >>
       ELSE /\ servers' = servers_set(router, server)
            /\ mcp_config' = servers'
            /\ routed' = NotRouted
            /\ IF listed.kind # "list"
               THEN /\ invoked' = main_ends("mcp add", FALSE, FALSE, TRUE)
                    /\ UNCHANGED settings_file
               ELSE IF in_list(item, listed.items)
               THEN /\ invoked' = main_ends("mcp add", FALSE, FALSE, FALSE)
                    /\ UNCHANGED settings_file
               ELSE IF settings_set_passes(settings, split_path(<<"m","c","p",".","c","u","s","t","o","m","S","e","r","v","e","r","s">>))
               THEN /\ settings_file' = saved_settings(settings_set_keys(settings,
                                             split_path(<<"m","c","p",".","c","u","s","t","o","m","S","e","r","v","e","r","s">>),
                                             [listed EXCEPT !.items = Append(@, item)]))
                    /\ invoked' = main_ends("mcp add", FALSE, FALSE, FALSE)
               ELSE /\ invoked' = main_ends("mcp add", FALSE, FALSE, TRUE)
                    /\ UNCHANGED settings_file
    /\ UNCHANGED << memory_files, managers, got, text, selected, resolved, cliVars, logVars,
                    laterVars >>

\* mcp route --task --language
CmdMcpRoute(task, language) ==
    /\ invoked.count < MaxInvocations
    /\ LET router == load_custom_servers(DEFAULT_SERVERS, mcp_config) IN
       IF falsy(task)
       THEN /\ invoked' = main_ends("mcp route", TRUE, TRUE, FALSE)
            /\ UNCHANGED << servers, routed >>
       ELSE /\ servers' = router
            /\ routed' = [task |-> task.text, language |-> language,
                          servers |-> route_task(router, task.text, language)]
            /\ invoked' = main_ends("mcp route", FALSE, FALSE, FALSE)
    /\ UNCHANGED << memory_files, settingsVars, mcp_config, text, selected, resolved,
                    cliVars, logVars, laterVars >>

\* memory save --key --data, in the category general
CmdMemorySave(key, data) ==
    /\ invoked.count < MaxInvocations
    /\ IF falsy(key) \/ falsy(data)
       THEN /\ invoked' = main_ends("memory save", TRUE, TRUE, FALSE)
            /\ UNCHANGED memory_files
       ELSE /\ memory_files' = dict_put(memory_files, key.text,
                                        [key |-> key.text, category |-> "general",
                                         timestamp |-> iso_now(clock), data |-> data.text])
            /\ invoked' = main_ends("memory save", FALSE, FALSE, FALSE)
    /\ UNCHANGED << settingsVars, cliVars, routeVars, logVars, laterVars >>

\* github login --token: the token is stored, then validated over the
\* network; valid is the answer of the API
CmdGithubLogin(pat, valid) ==
    /\ invoked.count < MaxInvocations
    /\ LET settings == settings_load(settings_file) IN
       IF falsy_string(pat)
       THEN /\ invoked' = main_ends("github login", TRUE, TRUE, FALSE)
            /\ UNCHANGED settings_file
       ELSE IF settings_set_passes(settings, split_path(<<"g","i","t","h","u","b",".","p","a","t">>))
       THEN /\ settings_file' = saved_settings(settings_set_keys(settings,
                                     split_path(<<"g","i","t","h","u","b",".","p","a","t">>), json_str(pat.string)))
            /\ invoked' = main_ends("github login", FALSE, ~valid, FALSE)
       ELSE /\ invoked' = main_ends("github login", FALSE, FALSE, TRUE)
            /\ UNCHANGED settings_file
    /\ UNCHANGED << memory_files, managers, got, cliVars, routeVars, logVars, laterVars >>

\* time passes between two commands; a command reads one clock value throughout
Tick ==
    /\ pc = "idle"
    /\ clock < MaxClock
    /\ clock' = clock + 1
    /\ UNCHANGED << engines, current_quality, rng, session_log, learning_log,
                    upgrade_log, hyperparameter_log, pc, cmd, call, returned, metrics,
                    history, commands, budget, routeVars, settingsVars, extVars, logVars >>

-----------------------------------------------------------------------------
(* CollaborationManager (collaboration.py): the sessions in memory and in
   sessions.json.                                                          *)

\* CollaboratorInfo.to_dict(): asdict(self)
collaborator_to_dict(c) ==
    json_dict(<< << <<"i","d">>, json_str(c.id) >>, << <<"n","a","m","e">>, json_str(c.name) >>,
                 << <<"e","m","a","i","l">>, json_str(c.email) >>, << <<"r","o","l","e">>, json_str(c.role) >> >>)

\* CollaborationSession.to_dict()
session_to_dict(session) ==
    json_dict(<< << <<"s","e","s","s","i","o","n","_","i","d">>, json_str(session.session_id) >>,
                 << <<"n","a","m","e">>, json_str(session.name) >>,
                 << <<"c","r","e","a","t","e","d","_","b","y">>, json_str(session.created_by) >>,
                 << <<"c","r","e","a","t","e","d","_","a","t">>, json_str(session.created_at) >>,
                 << <<"t","a","s","k">>, json_str(session.task) >>,
                 << <<"c","o","l","l","a","b","o","r","a","t","o","r","s">>,
                    json_list([n \in 1..Len(session.collaborators) |->
                                  collaborator_to_dict(session.collaborators[n])]) >>,
                 << <<"m","e","s","s","a","g","e","s">>, json_list(<< >>) >>,
                 << <<"c","h","a","n","g","e","s">>, json_list(<< >>) >>,
                 << <<"s","t","a","t","u","s">>, json_str(session.status) >> >>)

\* _save_sessions: write_text(json.dumps({"sessions": [...]}, indent=2))
save_sessions(sessions) ==
    [exists |-> TRUE,
     tokens |-> json_dumps_value(json_dict(<<
                   << <<"s","e","s","s","i","o","n","s">>,
                      json_list([n \in 1..Len(sessions) |-> session_to_dict(sessions[n])]) >> >>))]

\* the session _load_sessions builds of one element of data["sessions"]:
\* session_id, name, created_by, created_at, task and status are passed to
\* the constructor, collaborators is left at its default
session_of(session_data) ==
    [session_id |-> dict_get(session_data.items, <<"s","e","s","s","i","o","n","_","i","d">>).scalar,
     name |-> dict_get(session_data.items, <<"n","a","m","e">>).scalar,
     created_by |-> dict_get(session_data.items, <<"c","r","e","a","t","e","d","_","b","y">>).scalar,
     created_at |-> dict_get(session_data.items, <<"c","r","e","a","t","e","d","_","a","t">>).scalar,
     task |-> dict_get(session_data.items, <<"t","a","s","k">>).scalar,
     collaborators |-> << >>,
     status |-> IF dict_has(session_data.items, <<"s","t","a","t","u","s">>)
                THEN dict_get(session_data.items, <<"s","t","a","t","u","s">>).scalar ELSE "active"]

\* self.sessions[session.session_id] = session
RECURSIVE sessions_put(_, _)
sessions_put(sessions, session) ==
    IF sessions = << >> THEN << session >>
    ELSE IF Head(sessions).session_id = session.session_id
    THEN << session >> \o Tail(sessions)
    ELSE << Head(sessions) >> \o sessions_put(Tail(sessions), session)

\* _load_sessions
load_sessions(file) ==
    IF file.exists /\ json_loads_ok(file.tokens)
    THEN LET data == json_loads_value(file.tokens)
             listed == IF dict_has(data.items, <<"s","e","s","s","i","o","n","s">>)
                       THEN dict_get(data.items, <<"s","e","s","s","i","o","n","s">>).items ELSE << >>
         IN  [n \in 1..Len(listed) |-> session_of(listed[n][2])]
    ELSE << >>

NoSession == ""
NoSessionsFile == [exists |-> FALSE, tokens |-> << >>]

\* the session ids and the users of the collaboration harness
SessionIds == {"3f2a9c1e", "b801d4e7"}
Collaborators ==
    { [id |-> "u1", name |-> "Ann", email |-> "ann@example.org", role |-> "contributor"],
      [id |-> "u2", name |-> "Bob", email |-> "bob@example.org", role |-> "contributor"] }

\* CollaborationManager.__init__ on a storage directory without sessions.json
InitCollab ==
    /\ sessions_file = NoSessionsFile
    /\ collab = [sessions |-> load_sessions(NoSessionsFile), current_session |-> NoSession]
    /\ joined = [id \in SessionIds |-> {}]

aside_collab == << cliVars, routeVars, logVars, settingsVars, cmdVars, trainVars, upVars, browserVars >>

session_ids(sessions) == { sessions[n].session_id : n \in 1..Len(sessions) }

\* self.sessions.get(session_id), for an id of self.sessions
session_get(sessions, session_id) ==
    sessions[CHOOSE n \in 1..Len(sessions) : sessions[n].session_id = session_id]

\* create_session(name, task, creator): str(uuid.uuid4())[:8] is an id no
\* session has yet
CreateSession(session_id, name, task, creator) ==
    /\ session_id \notin session_ids(collab.sessions)
    /\ LET session == [session_id |-> session_id, name |-> name,
                       created_by |-> creator.id, created_at |-> iso_now(clock),
                       task |-> task, collaborators |-> << creator >>,
                       status |-> "active"]
       IN  collab' = [sessions |-> sessions_put(collab.sessions, session),
                      current_session |-> session_id]
    /\ sessions_file' = save_sessions(collab'.sessions)
    /\ joined' = [joined EXCEPT ![session_id] = {creator.id}]
    /\ UNCHANGED aside_collab

\* join_session: the collaborator is appended unless one with its id is in
\* the session
join_collaborators(collaborators, collaborator) ==
    IF \E n \in 1..Len(collaborators) : collaborators[n].id = collaborator.id
    THEN collaborators
    ELSE Append(collaborators, collaborator)

\* join_session(session_id, collaborator)
JoinSession(session_id, collaborator) ==
    /\ IF session_id \notin session_ids(collab.sessions)
       THEN UNCHANGED << collab, sessions_file, joined >>
       ELSE LET session == session_get(collab.sessions, session_id)
                members == join_collaborators(session.collaborators, collaborator)
            IN  /\ collab' = [sessions |-> sessions_put(collab.sessions,
                                              [session EXCEPT !.collaborators = members]),
                              current_session |-> session_id]
                /\ sessions_file' = IF members = session.collaborators THEN sessions_file
                                    ELSE save_sessions(collab'.sessions)
                /\ joined' = [joined EXCEPT ![session_id] = @ \cup {collaborator.id}]
    /\ UNCHANGED aside_collab

\* leave_session(session_id, collaborator_id)
LeaveSession(session_id, collaborator_id) ==
    /\ IF session_id \notin session_ids(collab.sessions)
       THEN UNCHANGED << collab, sessions_file, joined >>
       ELSE LET session == session_get(collab.sessions, session_id)
                members == SelectSeq(session.collaborators,
                                     LAMBDA c : c.id # collaborator_id)
            IN  /\ collab' = [collab EXCEPT
                                !.sessions = sessions_put(collab.sessions,
                                                [session EXCEPT !.collaborators = members])]
                /\ sessions_file' = save_sessions(collab'.sessions)
                /\ joined' = [joined EXCEPT ![session_id] = @ \ {collaborator_id}]
    /\ UNCHANGED aside_collab

\* a new CollaborationManager on the same storage directory
RestartManager ==
    /\ collab' = [sessions |-> load_sessions(sessions_file), current_session |-> NoSession]
    /\ UNCHANGED << sessions_file, joined, aside_collab >>

-----------------------------------------------------------------------------
(* BrowserExtensionServer (browser_extension.py): the caller of start and
   stop, the thread that runs _serve, and the listening socket.            *)

\* ExtensionHandler.do_GET
health_response == [code |-> 200, message |-> "running"]

\* ExtensionHandler._process_message
process_message(callback, action) ==
    IF callback # "none" THEN callback
    ELSE CASE action = "analyze" -> "Code analysis complete"
           [] action = "fix" -> "Fix applied"
           [] action = "generate" -> "Code generated"
           [] OTHER -> "Action " \o action \o " received"

\* ExtensionHandler.do_POST
post_response(callback, action) ==
    [code |-> 200, message |-> process_message(callback, action)]

NoResponse == [code |-> 0, message |-> ""]

\* BrowserExtensionServer.__init__; is_shut_down and shutdown_request are the
\* fields socketserver.BaseServer.__init__ gives a server: the event is
\* created unset and only serve_forever sets it
NoExtension ==
    [running |-> FALSE, server |-> "none", shutdown_request |-> FALSE,
     is_shut_down |-> FALSE, thread |-> "none", caller |-> "idle",
     callback |-> "none", queue |-> << >>, sent |-> 0, response |-> NoResponse]

InitBrowser == ext = NoExtension

aside_browser ==
    << cliVars, routeVars, logVars, settingsVars, cmdVars, trainVars, upVars, collabVars >>

\* start(callback): nothing when the server runs; otherwise the socket is
\* bound and the thread started
Start(callback) ==
    /\ ext.caller = "idle"
    /\ ext' = IF ext.running THEN ext
              ELSE [ext EXCEPT !.callback = callback, !.server = "open",
                               !.shutdown_request = FALSE, !.is_shut_down = FALSE,
                               !.running = TRUE, !.thread = "loop"]
    /\ UNCHANGED aside_browser

\* stop(): self._running = False, up to the call of self.server.shutdown()
StopBegin ==
    /\ ext.caller = "idle"
    /\ ext' = [ext EXCEPT !.running = FALSE, !.caller = "stopping",
                          !.shutdown_request = (ext.server # "none") \/ @]
    /\ UNCHANGED aside_browser

\* stop(): shutdown() waits for the event is_shut_down when there is a
\* server; then self.server = None, and stop returns
StopEnd ==
    /\ ext.caller = "stopping"
    /\ ext.server = "none" \/ ext.is_shut_down
    /\ ext' = [ext EXCEPT !.server = "none", !.caller = "idle"]
    /\ UNCHANGED aside_browser

\* _serve: the test of the while loop; handle_request() waits for a request
\* without a timeout
ServeLoop ==
    /\ ext.thread = "loop"
    /\ ext' = [ext EXCEPT !.thread = IF ext.running /\ ext.server # "none"
                                     THEN "waiting" ELSE "exited"]
    /\ UNCHANGED aside_browser

\* handle_request(): one request is taken from the socket and answered
HandleRequest ==
    /\ ext.thread = "waiting"
    /\ ext.queue # << >>
    /\ LET request == Head(ext.queue)
       IN  ext' = [ext EXCEPT
                     !.queue = Tail(@),
                     !.response = IF request.method = "GET" THEN health_response
                                  ELSE post_response(ext.callback, request.action),
                     !.thread = "loop"]
    /\ UNCHANGED aside_browser

\* a client connects to the listening socket, which stays open once bound
ClientRequest(request) ==
    /\ ext.server = "open"
    /\ ext.sent < MaxRequests
    /\ ext' = [ext EXCEPT !.queue = Append(@, request), !.sent = @ + 1]
    /\ UNCHANGED aside_browser

-----------------------------------------------------------------------------
(* The inputs and the specifications.                                      *)

T_fix == "Fix the login bug"
T_p1 == "p1"
T_p2 == "p2"
T_voice == "Add voice input support"

\* the tasks of the six steps of an upgrade described as T_voice
UpgradeTasks ==
    [n \in 1..Len(UPGRADE_STEPS) |-> T_voice \o " :: " \o UPGRADE_STEPS[n].description]

\* what random.Random(int(sha256(task).hexdigest(), 16)) yields for the
\* tasks of the model: randint(1, 5), randint(5, 20), uniform(-0.05, 0.05)
\* in units of 0.000001, randint(1, 3)
draws(files, total, u, sugg) == [files |-> files, total |-> total, u |-> u, sugg |-> sugg]

SeededDraws ==
    [t \in {T_fix, T_p1, T_p2} \cup {DEFAULT_PROBLEMS[n] : n \in 1..Len(DEFAULT_PROBLEMS)}
          \cup {UpgradeTasks[n] : n \in 1..Len(UpgradeTasks)} |->
       CASE t = T_fix -> draws(3, 12, -42685, 3)
         [] t = T_p1 -> draws(1, 16, 15177, 2)
         [] t = T_p2 -> draws(4, 17, -26858, 2)
         [] t = DEFAULT_PROBLEMS[1] -> draws(2, 6, 16935, 1)
         [] t = DEFAULT_PROBLEMS[2] -> draws(1, 18, 12269, 3)
         [] t = DEFAULT_PROBLEMS[3] -> draws(1, 10, -37429, 3)
         [] t = DEFAULT_PROBLEMS[4] -> draws(3, 18, 45769, 2)
         [] t = DEFAULT_PROBLEMS[5] -> draws(2, 11, -38980, 2)
         [] t = UpgradeTasks[1] -> draws(4, 19, 33618, 2)
         [] t = UpgradeTasks[2] -> draws(1, 15, 37978, 1)
         [] t = UpgradeTasks[3] -> draws(4, 11, 11348, 3)
         [] t = UpgradeTasks[4] -> draws(4, 20, -15365, 3)
         [] t = UpgradeTasks[5] -> draws(5, 9, -43323, 2)
         [] t = UpgradeTasks[6] -> draws(5, 17, -9008, 3)]

\* an item of primary_engines in _data/agi_engines.yml
item(name, given, quality) == [name |-> name, given |-> given, quality |-> quality]

\* the run commands of the command line harness: task, --board, --no-verify
RunCommands ==
    { << T_p1, "auto", TRUE >>, << T_p1, "auto", FALSE >>,
      << T_fix, "auto", TRUE >>, << T_p1, "no-such-board", TRUE >> }

\* the train commands: --problems, --intensity
TrainCommands ==
    { << << >>, "high" >>, << << T_p1, T_p2 >>, "low" >>,
      << << T_p1, T_p2 >>, "medium" >>, << << T_p1, T_p2 >>, "extreme" >> }

InitProgram ==
    /\ current_quality = InitialQuality
    /\ clock = 0
    /\ session_log = << >>
    /\ learning_log = << >>
    /\ upgrade_log = << >>
    /\ hyperparameter_log = << >>
    /\ pc = "idle"
    /\ cmd = NoCmd
    /\ call = NoCall
    /\ returned = NoResult
    /\ metrics = NoMetrics
    /\ history = {}
    /\ commands = 0
    /\ InitRoute
    /\ InitLog
    /\ InitSettings
    /\ InitCmd
    /\ InitUpgrade
    /\ InitCollab
    /\ InitBrowser

\* no settings file yet
InitHarness ==
    /\ InitProgram
    /\ settings_file = NoSettingsFile
    /\ InitTrain

\* the command line harness: no engine config file
Init ==
    /\ InitHarness
    /\ engines = load_engines(<< >>)
    /\ rng = SeededDraws
    /\ budget = MaxCommands

Next ==
    \/ \E c \in RunCommands : StartRun(c[1], c[2], FALSE, 1, c[3])
    \/ \E c \in TrainCommands : StartTrain(c[1], c[2])
    \/ PTBegin
    \/ PTVerify
    \/ PTLogSession
    \/ PTTrackLearning
    \/ TrainCall
    \/ TrainAfter
    \/ TrainFinish
    \/ Restart
    \/ Tick

Spec == Init /\ [][Next]_vars

\* the simulator harness: one process_task call, for every engine config
\* file of SimConfigs and every value the generator can draw for the task
SimConfigs ==
    { << >>,
      << item("PerceiveRise-G4-G3-185", "number", 9812) >>,
      << item("PerceiveRise-G4-G3-185", "number", 9813) >>,
      << item("PlanVoice-G4-G3-203", "number", 15000) >>,
      << item("PlanVoice-G4-G3-203", "number", -30000) >>,
      << item("", "number", 1), item("Custom-1", "missing", 0) >>,
      << item("WiseJust-G4-G3-119", "number", 5000), item("Custom-2", "invalid", 0),
         item("PlanVoice-G4-G3-203", "number", 0) >> }

SimDraws ==
    { draws(files, total, u, sugg) :
        files \in {1, 5}, total \in 5..20,
        u \in {-50000, -42685, 0, 2650, 50000}, sugg \in {1, 3} }

SimRuns ==
    { << "auto", 1, TRUE >>, << "auto", 1, FALSE >>, << "code-architect", 1, TRUE >>,
      << "code-architect", 2, FALSE >>, << "no-such-board", 1, TRUE >> }

InitSim ==
    /\ InitHarness
    /\ \E config \in SimConfigs : engines = load_engines(config)
    /\ \E d \in SimDraws : rng = [t \in DOMAIN SeededDraws |-> d]
    /\ budget = 1

NextSim ==
    \/ \E c \in SimRuns : StartRun(T_fix, c[1], FALSE, c[2], c[3])
    \/ PTBegin
    \/ PTVerify
    \/ PTLogSession
    \/ PTTrackLearning

SpecSim == InitSim /\ [][NextSim]_vars

\* select_board alone
InitRouteOnly ==
    /\ InitHarness
    /\ engines = FALLBACK_ENGINES
    /\ rng = SeededDraws
    /\ budget = 0

NextRoute == \E task \in RouteTexts : SelectBoard(task)

SpecRoute == InitRouteOnly /\ [][NextRoute]_vars

\* the multi commands: --agents and --boards, board lists with boards of
\* equal confidence, with a board twice, and with a key that is no board
MultiAgents == 1..MaxAgents
MultiBoards ==
    { << >>,
      << "doc-generator", "bug-detector", "code-architect", "security", "test-verifier" >>,
      << "security", "security" >>,
      << "no-such-board", "optimization", "hyperparameter-tuner" >> }

MultiConfigs ==
    { << >>, << item("WiseJust-G4-G3-119", "number", 9950) >> }

InitMulti ==
    /\ InitHarness
    /\ \E config \in MultiConfigs : engines = load_engines(config)
    /\ rng = SeededDraws
    /\ budget = 1

NextMulti ==
    \/ \E agent_count \in MultiAgents, boards \in MultiBoards :
          StartMulti(T_fix, agent_count, boards)
    \/ MultiCall
    \/ MultiAfter
    \/ MultiFinish
    \/ PTBegin
    \/ PTVerify
    \/ PTLogSession
    \/ PTTrackLearning

SpecMulti == InitMulti /\ [][NextMulti]_vars

\* the upgrade command: the description given or left at its default,
\* --mode, --execute, --auto
UpgradeModes == {"self", "feature", "bugfix"}

InitUp ==
    /\ InitHarness
    /\ engines = load_engines(<< >>)
    /\ rng = SeededDraws
    /\ budget = 1

NextUpgrade ==
    \/ \E description \in {T_voice, "General improvements"}, mode \in UpgradeModes,
          execute \in BOOLEAN, auto \in BOOLEAN :
          StartUpgrade(description, mode, execute, auto)
    \/ UpgradeCall
    \/ UpgradeAfter
    \/ UpgradeFinish
    \/ UpgradeStepRaises
    \/ PTBegin
    \/ PTVerify
    \/ PTLogSession
    \/ PTTrackLearning
    \/ Tick

SpecUpgrade == InitUp /\ [][NextUpgrade]_vars

\* the collaboration harness: one manager at a time on one storage directory
NextCollab ==
    \/ \E session_id \in SessionIds, creator \in Collaborators :
          CreateSession(session_id, "pairing", "Fix the login bug", creator)
    \/ \E session_id \in SessionIds, collaborator \in Collaborators :
          JoinSession(session_id, collaborator)
    \/ \E session_id \in SessionIds, collaborator \in Collaborators :
          LeaveSession(session_id, collaborator.id)
    \/ RestartManager

SpecCollab == InitRouteOnly /\ [][NextCollab]_vars

\* the browser extension harness: the requests of the extension, and the
\* callbacks start is given
Requests ==
    { [method |-> "GET", action |-> ""], [method |-> "POST", action |-> "analyze"],
      [method |-> "POST", action |-> "fix"], [method |-> "POST", action |-> "lint"] }

NextBrowser ==
    \/ \E callback \in {"none", "custom"} : Start(callback)
    \/ StopBegin
    \/ StopEnd
    \/ ServeLoop
    \/ HandleRequest
    \/ \E request \in Requests : ClientRequest(request)

SpecBrowser == InitRouteOnly /\ [][NextBrowser]_vars

\* the thread of _serve and the caller inside stop() keep running; nothing
\* makes a client send a request or the caller call start or stop
SpecBrowserFair ==
    /\ SpecBrowser
    /\ WF_vars(ServeLoop)
    /\ WF_vars(HandleRequest)
    /\ WF_vars(StopEnd)

\* the servers the mcp harness adds: one under the key of a default server,
\* one with languages in mixed case, one without languages
CustomServers ==
    { [key |-> "github", languages |-> << <<"p","y","t","h","o","n">> >>],
      [key |-> "mylint", languages |-> << <<"P","y","t","h","o","n">>, <<"g","o">> >>],
      [key |-> "notes", languages |-> << >>] }

RouteTasks ==
    { <<"F","i","x"," ","t","h","e"," ","g","i","t","h","u","b"," ","i","s","s","u","e">>, <<"w","r","i","t","e"," ","t","e","s","t","s">>, <<"x","y","z">>, <<"P","o","r","t"," ","t","h","e"," ","D","j","a","n","g","o"," ","a","p","p"," ","t","o"," ","G","o">> }

RouteLanguages == { NoLanguage, <<"P","y","t","h","o","n">>, <<"f","s","h","a","r","p">>, <<"c","o","b","o","l">> }

\* the mcp command, one router
NextMcp ==
    \/ \E server \in CustomServers : AddServer(server)
    \/ \E task \in RouteTasks, language \in RouteLanguages : RouteTask(task, language)
    \/ NewRouter

SpecMcp == InitRouteOnly /\ [][NextMcp]_vars

\* board resolution over the registries a config file can give
InitBoards ==
    /\ InitHarness
    /\ \E config \in SimConfigs : engines = load_engines(config)
    /\ rng = SeededDraws
    /\ budget = 0

NextBoards == \E board_name \in BoardKeys : ResolveBoard(board_name)

SpecBoards == InitBoards /\ [][NextBoards]_vars

\* one log file
NextLog ==
    \/ \E entry \in LogEntries : LogAppend(entry)
    \/ \E kind \in {"garbage", "blank"} : LogExternalWrite(kind)
    \/ \E limit \in 0..MaxLimit : LogTail(limit)
    \/ \E value \in {"t1", "t2"}, limit \in 0..MaxLimit : LogSearch("task_id", value, limit)
    \/ Tick

SpecLog == InitRouteOnly /\ [][NextLog]_vars

\* the settings files a process may find: none, one an earlier run wrote, one
\* that is not JSON, one whose document is not a mapping
SettingsFiles ==
    { NoSettingsFile,
      [exists |-> TRUE,
       tokens |-> json_dumps_value(json_dict(<<
                     << <<"v","e","r","s","i","o","n">>, json_str("1.0") >>,
                     << <<"a","p","p">>, json_dict(<< << <<"t","h","e","m","e">>, json_str("dark") >> >>) >>,
                     << <<"x">>, json_null >> >>))],
      [exists |-> TRUE, tokens |-> << token("{", << >>, "") >>],
      [exists |-> TRUE, tokens |-> json_dumps_value(json_num("5"))] }

\* settings set --key --value: the value is the JSON document of --value
SetKeys == { <<"a",".","b",".","c">>, <<"a","p","p",".","t","h","e","m","e">>, <<"x">>, <<"v","e","r","s","i","o","n",".","m","a","j","o","r">>, <<"a","p","p",".",".","t">>, <<"x",".","y">>, <<"a","p","i",".","e","n","d","p","o","i","n","t","s",".","k">> }
SetValues == { json_num("5"), json_null, json_dict(<< << <<"k">>, json_num("1") >> >>) }

\* the get calls: keys that are set, unset, and through a scalar; defaults
\* None, a number, an empty and a non-empty mapping
GetCalls ==
    { << <<"a","p","p",".","t","h","e","m","e">>, json_null >>,
      << <<"x",".","y",".","z">>, json_num("42") >>,
      << <<"x",".","y",".","z">>, json_null >>,
      << <<"v","e","r","s","i","o","n",".","m","a","j","o","r">>, json_num("42") >>,
      << <<"a","p","i",".","t","o","k","e","n","s">>, json_dict(<< >>) >>,
      << <<"x",".","y">>, json_dict(<< >>) >>,
      << <<"x",".","y">>, json_dict(<< << <<"y">>, json_num("1") >> >>) >> }

InitSettingsFile ==
    /\ InitProgram
    /\ settings_file \in SettingsFiles
    /\ InitTrain
    /\ engines = FALLBACK_ENGINES
    /\ rng = SeededDraws
    /\ budget = 0

NextSettings ==
    \/ \E p \in Processes : NewManager(p)
    \/ \E p \in Processes, c \in GetCalls : SettingsGet(p, c[1], c[2])
    \/ \E p \in Processes, key \in SetKeys, value \in SetValues : SettingsSet(p, key, value)
    \/ \E p \in Processes : SaveWrite(p)

SpecSettings == InitSettingsFile /\ [][NextSettings]_vars

\* the command lines: each option given, missing or empty
KeyArgs == { NoArg, arg(<< >>), arg(<<"a","p","p",".","t","h","e","m","e">>), arg(<<"v","e","r","s","i","o","n",".","m","a","j","o","r">>) }
ValueArgs == { NoValue, [given |-> TRUE, value |-> json_num("5")] }
UrlArgs == { NoStringArg, string_arg("acme/mylint") }
TaskArgs == { NoArg, arg(<<"F","i","x"," ","t","h","e"," ","g","i","t","h","u","b"," ","i","s","s","u","e">>) }
DataArgs == { NoArg, arg(<<"{","}">>) }
MemoryKeys == { NoArg, arg(<<"n","o","t","e","s">>) }
TokenArgs == { NoStringArg, string_arg("ghp_x") }

NextCmd ==
    \/ \E key \in KeyArgs, value \in ValueArgs : CmdSettingsSet(key, value)
    \/ \E url \in UrlArgs, server \in CustomServers : CmdMcpAdd(url, server)
    \/ \E task \in TaskArgs, language \in {NoLanguage, <<"P","y","t","h","o","n">>} :
          CmdMcpRoute(task, language)
    \/ \E key \in MemoryKeys, data \in DataArgs : CmdMemorySave(key, data)
    \/ \E pat \in TokenArgs, valid \in BOOLEAN : CmdGithubLogin(pat, valid)

SpecCmd == InitSettingsFile /\ [][NextCmd]_vars

\* the training engine alone
NextTrain ==
    \/ \E num_problems \in {0, 50} : TrainingCycle(num_problems, "extreme")
    \/ RestartTrainer

\* the cycles recorded before the behaviour starts
EarlierCycles == {0} \cup 993..1000

InitTrainer ==
    /\ InitProgram
    /\ settings_file = NoSettingsFile
    /\ engines = FALLBACK_ENGINES
    /\ rng = SeededDraws
    /\ budget = 0
    /\ \E n \in EarlierCycles : InitTrainOver(n)

SpecTrain == InitTrainer /\ [][NextTrain]_vars

(***************************************************************************)
(* The claims                                                              *)
(***************************************************************************)

\* the positions inside a process_task call
InProcessTask == {"pt_begin", "pt_verify", "pt_log", "pt_learn"}

\* a process_task call has returned and nothing was started since
returned_call == pc \notin InProcessTask /\ call.task # NoTask /\ returned = call.result

last(xs) == xs[Len(xs)]

extends_by_one(after, before) ==
    /\ Len(after) = Len(before) + 1
    /\ SubSeq(after, 1, Len(before)) = before

least(a, b) == IF a < b THEN a ELSE b

same_outcome(a, b) ==
    /\ a.board_used = b.board_used
    /\ a.engines_used = b.engines_used
    /\ a.confidence = b.confidence
    /\ a.files_changed = b.files_changed
    /\ a.tests_passed = b.tests_passed
    /\ a.tests_total = b.tests_total
    /\ a.suggestions = b.suggestions

\* C1: two process_task calls with the same task text and the same board
\* argument return the same board, engines, confidence, files, test counts
\* and suggestions, whatever the clock, the task id, the verify flag and the
\* calls made before them.
C1_Deterministic ==
    \A a \in history : \A b \in history :
        (a.task = b.task /\ a.board = b.board) => same_outcome(a.result, b.result)

\* the same task ran twice, at different task ids, once with and once
\* without verification, with a training command in between or before
C1_Witness ==
    \E a \in history : \E b \in history :
        /\ a.task = b.task /\ a.board = b.board
        /\ a.result.task_id # b.result.task_id
        /\ a.result.status # b.result.status
        /\ metrics.tests_total > 0

\* the selection rules as the claim lists them, in order
ClaimedRules ==
    << [keywords |-> << <<"b","u","g">>, <<"e","r","r","o","r">>, <<"f","i","x">> >>, board |-> "bug-detector"],
       [keywords |-> << <<"t","e","s","t">>, <<"v","e","r","i","f","y">>, <<"q","a">> >>, board |-> "unit-testing"],
       [keywords |-> << <<"c","r","e","a","t","e">>, <<"b","u","i","l","d">>, <<"g","e","n","e","r","a","t","e">>, <<"i","m","p","l","e","m","e","n","t">> >>,
        board |-> "code-generator"],
       [keywords |-> << <<"d","o","c","u","m","e","n","t">>, <<"c","o","m","m","e","n","t">>, <<"e","x","p","l","a","i","n">>, <<"r","e","a","d","m","e">> >>,
        board |-> "doc-generator"],
       [keywords |-> << <<"a","r","c","h","i","t","e","c","t","u","r","e">>, <<"d","e","s","i","g","n">>, <<"s","t","r","u","c","t","u","r","e">> >>,
        board |-> "code-architect"],
       [keywords |-> << <<"s","e","c","u","r","i","t","y">>, <<"v","u","l","n","e","r","a","b","i","l","i","t","y">>, <<"a","u","t","h">> >>, board |-> "security"],
       [keywords |-> << <<"o","p","t","i","m","i","z","e">>, <<"p","e","r","f","o","r","m","a","n","c","e">>, <<"s","p","e","e","d">> >>,
        board |-> "optimization"],
       [keywords |-> << <<"r","e","f","a","c","t","o","r">>, <<"c","l","e","a","n">>, <<"r","e","s","t","r","u","c","t","u","r","e">> >>,
        board |-> "refactoring"],
       [keywords |-> << <<"r","e","v","i","e","w">>, <<"c","h","e","c","k">>, <<"a","u","d","i","t">> >>, board |-> "code-reviewer"],
       [keywords |-> << <<"i","n","t","e","g","r","a","t","e">>, <<"a","p","i">>, <<"c","o","n","n","e","c","t">> >>,
        board |-> "integration-testing"] >>

\* the same rules with the keyword "crash" in the first one
AmendedRules ==
    [ClaimedRules EXCEPT ![1].keywords = Append(@, <<"c","r","a","s","h">>)]

\* the board of the first rule that has a keyword in the text, "auto" if none
first_match(rules, lowered) ==
    LET hits == {n \in 1..Len(rules) : any_in(rules[n].keywords, lowered)}
    IN  IF hits = {} THEN "auto"
        ELSE rules[CHOOSE n \in hits : \A m \in hits : n <= m].board

\* C2 as stated: select_board returns the board of the first rule of the
\* listed table (first rule: bug, error, fix) that has a keyword as a
\* substring of the lower-cased task, and "auto" when no rule matches.
C2_AsClaimed ==
    selected # "none" =>
        /\ selected = first_match(ClaimedRules, str_lower(text))
        /\ selected \in DOMAIN BOARD_PRESETS

\* C2: select_board returns the board of the first rule that has a keyword
\* as a substring of the lower-cased task, the first rule's keywords being
\* bug, error, fix and crash, and "auto" when no rule matches; the board it
\* returns is always a preset.
C2_FirstMatch ==
    selected # "none" =>
        /\ selected = first_match(AmendedRules, str_lower(text))
        /\ selected \in DOMAIN BOARD_PRESETS

\* a task whose only keyword is "crash"
C2_Witness ==
    /\ selected = "bug-detector"
    /\ first_match(ClaimedRules, str_lower(text)) = "auto"

\* C3: a process_task call writes nothing before verification is over, then
\* appends exactly one session entry and after it exactly one learning
\* entry, both recording the status and confidence of the result the call
\* returns, and touches no other log.
C3_LoggedOnce ==
    [][/\ pc = "pt_begin" =>
            /\ pc' = "pt_verify"
            /\ UNCHANGED << session_log, learning_log >>
       /\ pc = "pt_verify" =>
            /\ pc' = "pt_log"
            /\ UNCHANGED << session_log, learning_log >>
       /\ pc = "pt_log" =>
            /\ pc' = "pt_learn"
            /\ extends_by_one(session_log', session_log)
            /\ UNCHANGED learning_log
       /\ pc = "pt_learn" =>
            /\ pc' \notin InProcessTask
            /\ extends_by_one(learning_log', learning_log)
            /\ UNCHANGED session_log
            /\ LET s == json_loads(last(session_log'))
                   l == json_loads(last(learning_log'))
               IN  /\ dict_get(s, "type") = "task"
                   /\ dict_get(s, "task_id") = returned'.task_id
                   /\ dict_get(s, "status") = returned'.status
                   /\ dict_get(s, "confidence") = returned'.confidence
                   /\ dict_get(l, "type") = "learning"
                   /\ dict_get(l, "status") = returned'.status
                   /\ dict_get(l, "confidence") = returned'.confidence
                   /\ dict_get(l, "tests_passed") = returned'.tests_passed
                   /\ dict_get(l, "tests_total") = returned'.tests_total
       /\ pc \in InProcessTask => UNCHANGED << upgrade_log, hyperparameter_log >>
      ]_vars

\* a verified call has returned and both of its entries are on file
C3_Witness ==
    /\ returned_call
    /\ returned.status = "verified"
    /\ dict_get(json_loads(last(session_log)), "status") = "verified"
    /\ dict_get(json_loads(last(learning_log)), "type") = "learning"

\* the engines of the two verifier boards, each once
verifier_names ==
    LET of(b) == {BOARD_PRESETS[b].primary_engine}
                 \cup {BOARD_PRESETS[b].supporting_engines[n] :
                         n \in 1..Len(BOARD_PRESETS[b].supporting_engines)}
    IN  of("test-verifier") \cup of("quality-verifier")

RECURSIVE quality_total(_, _)
quality_total(reg, names) ==
    IF names = {} THEN 0
    ELSE LET e == CHOOSE x \in names : TRUE
         IN  engine_quality(reg, e) + quality_total(reg, names \ {e})

\* the mean quality of the verifier engines is above 0.99
verifiers_above_threshold ==
    quality_total(engines, verifier_names) > 9900 * Cardinality(verifier_names)

\* C4: a result is "completed" when _execute_task made it, and the result a
\* call logs and returns is "verified" exactly when verification was asked
\* for and the mean quality of the distinct verifier engines is strictly
\* above 0.99, "completed" otherwise; no other status occurs.
C4_Status ==
    /\ call.result.status \in {"none", "completed", "verified"}
    /\ returned.status \in {"none", "completed", "verified"}
    /\ pc = "pt_verify" => call.result.status = "completed"
    /\ (pc \in {"pt_log", "pt_learn"} \/ returned_call) =>
          /\ call.result.status \in {"completed", "verified"}
          /\ call.result.status = "verified" <=> (call.verify /\ verifiers_above_threshold)
          /\ call.result.output.verified = (call.result.status = "verified")

\* verification was asked for, the verifier mean is exactly 0.99, and the
\* call returned "completed"
C4_Witness ==
    /\ returned_call
    /\ call.verify
    /\ quality_total(engines, verifier_names) = 9900 * Cardinality(verifier_names)
    /\ returned.status = "completed"

\* C5: within one process the quality never falls and never exceeds the
\* target 1.0, through tasks and trainings alike.
C5_Monotone ==
    /\ current_quality <= TargetQuality
    /\ [][/\ current_quality' <= TargetQuality
          /\ current_quality' < current_quality => pc' = "idle" /\ pc = "idle"
                                                   /\ current_quality' = InitialQuality
         ]_vars

\* the quality reached the target in a training and a task ran after that
C5_Witness ==
    /\ current_quality = TargetQuality
    /\ metrics.quality_after = TargetQuality
    /\ returned_call
    /\ call.ret = "idle"

\* the multipliers the claim lists
claimed_multiplier(intensity) ==
    CASE intensity = "low" -> 1
      [] intensity = "medium" -> 5
      [] intensity = "high" -> 10
      [] intensity = "extreme" -> 50

\* the step in which train_engines finishes
training_finishes == pc = "tr_loop" /\ pc' = "idle"

\* C6 as stated: training leaves quality_after = min(1.0, quality_before +
\* multiplier * number of problems), the improvement being the only change.
C6_AsClaimed ==
    [][training_finishes =>
          /\ metrics'.quality_before = cmd.quality_before
          /\ metrics'.quality_after =
                least(TargetQuality,
                      cmd.quality_before
                      + claimed_multiplier(cmd.intensity) * Len(cmd.problems))
          /\ current_quality' = metrics'.quality_after
      ]_vars

\* C6: training leaves quality_after = min(1.0, quality_before +
\* 0.0001 * n + multiplier * n), n being the number of problems trained on
\* (the five default problems when none is given): every problem's
\* process_task call adds 0.0001 before the improvement is applied once.
C6_Trained ==
    [][training_finishes =>
          /\ metrics'.quality_before = cmd.quality_before
          /\ metrics'.quality_after =
                least(TargetQuality,
                      cmd.quality_before + Len(cmd.problems)
                      + claimed_multiplier(cmd.intensity) * Len(cmd.problems))
          /\ current_quality' = metrics'.quality_after
          /\ Len(cmd.problems) > 0
      ]_vars

\* two problems at low intensity from 0.9927 gave 0.9931
C6_Witness ==
    /\ pc = "idle"
    /\ cmd.intensity = "low"
    /\ Len(cmd.problems) = 2
    /\ metrics.quality_before = 9927
    /\ metrics.quality_after = 9931
    /\ current_quality = 9931

\* the lines that parse
well_formed(lines) == SelectSeq(lines, LAMBDA l : l.kind = "json")

\* the entries the lines hold
entries_of(lines) == [n \in 1..Len(lines) |-> lines[n].members]

\* the last n elements, all of them when there are fewer
last_n(xs, n) == SubSeq(xs, Len(xs) - least(n, Len(xs)) + 1, Len(xs))

\* C7 as stated: tail(limit) returns the last limit well-formed entries;
\* the blank and the malformed lines are skipped and do not count against
\* the limit (limit at least 1).
C7_AsClaimed ==
    (lastRead.op = "tail" /\ lastRead.limit >= 1) =>
        lastRead.entries = entries_of(last_n(well_formed(log), lastRead.limit))

\* C7: tail(limit), limit at least 1, takes the last limit lines of the file
\* and returns, oldest first, the entries of those among them that parse:
\* blank and malformed lines are skipped but count against the limit.
\* tail(0) reads every line.
C7_Tail ==
    lastRead.op = "tail" =>
        lastRead.entries =
            entries_of(well_formed(last_n(log, IF lastRead.limit = 0 THEN Len(log)
                                               ELSE lastRead.limit)))

\* two entries are on file, the last line is unusable, and tail(2) returned
\* one entry
C7_Witness ==
    /\ lastRead.op = "tail"
    /\ lastRead.limit = 2
    /\ Len(well_formed(log)) >= 2
    /\ last(log).kind # "json"
    /\ Len(lastRead.entries) = 1

\* C8: the log only grows, by one line per append, tail and search change
\* nothing, append returns the entry it stored, and after N appends to an
\* empty log tail(N) returns the N entries in the order they were appended.
C8_AppendOnly ==
    /\ []((lastRead.op = "tail" /\ Len(acked) = Len(log)
           /\ lastRead.limit >= Len(log) /\ lastRead.limit >= 1)
          => lastRead.entries = acked)
    /\ [][/\ log' = log \/ extends_by_one(log', log)
          /\ acked' # acked =>
                /\ extends_by_one(log', log)
                /\ acked' = Append(acked, json_loads(last(log')))
                /\ dict_has(last(acked'), "timestamp")
          /\ (lastRead' # lastRead /\ lastRead'.op # "none") => log' = log
         ]_vars

\* three appends at two different times, read back whole and in order
C8_Witness ==
    /\ lastRead.op = "tail"
    /\ lastRead.limit = 3
    /\ Len(acked) = 3
    /\ Len(log) = 3
    /\ lastRead.entries = acked
    /\ dict_get(acked[1], "timestamp") # dict_get(acked[3], "timestamp")
    /\ dict_get(acked[1], "task_id") # dict_get(acked[2], "task_id")

\* C9: every result process_task makes or returns has tests_passed <=
\* tests_total, whatever the task draws and the qualities in the registry.
C9_TestsBounded ==
    \A r \in {call.result, returned} :
        r.status # "none" => r.tests_passed <= r.tests_total

\* the quality draw put the product above tests_total and the cap held it
C9_Witness ==
    /\ returned_call
    /\ returned.tests_passed = returned.tests_total
    /\ trunc_div(returned.tests_total
                 * (quality_sum(engines, returned.engines_used) * 100
                    + Len(returned.engines_used) * rng[call.task].u),
                 Len(returned.engines_used) * 1000000) > returned.tests_total

\* C10 as stated: every confidence is within 0..100 and every engine quality
\* within 0..1, the qualities read from the configuration file included.
C10_AsClaimed ==
    returned_call =>
        /\ returned.confidence >= 0
        /\ returned.confidence <= 10000
        /\ \A n \in 1..Len(engines) :
              engines[n].quality >= 0 /\ engines[n].quality <= 10000

\* tests_total * (avg_quality + u) of a result, as the fraction
\* product_num / product_den
product_num(r, u) ==
    r.tests_total * (quality_sum(engines, r.engines_used) * 100 + Len(r.engines_used) * u)

product_den(r) == Len(r.engines_used) * 1000000

\* C11 as stated: tests_passed is the product rounded to the nearest integer
\* and then capped at tests_total.
C11_AsClaimed ==
    returned_call =>
        returned.tests_passed =
            least(returned.tests_total,
                  round_div(product_num(returned, rng[call.task].u), product_den(returned)))

\* C11: tests_passed is the product tests_total * (avg_quality + u) with its
\* fraction dropped (truncated towards zero, as int() does), then capped at
\* tests_total.
C11_Truncated ==
    returned_call =>
        LET p == product_num(returned, rng[call.task].u)
            d == product_den(returned)
            k == returned.tests_passed
        IN  \/ k = returned.tests_total /\ p >= k * d
            \/ k < returned.tests_total /\ p >= 0 /\ k * d <= p /\ p < (k + 1) * d
            \/ k < returned.tests_total /\ p < 0 /\ k <= 0 /\ k * d >= p /\ p > (k - 1) * d

\* a product whose fraction is above one half: rounding would give one more
C11_Witness ==
    /\ returned_call
    /\ returned.tests_passed + 1 < returned.tests_total
    /\ round_div(product_num(returned, rng[call.task].u), product_den(returned))
         = returned.tests_passed + 1

\* the names of the registry, in registry order
registry_names == [n \in 1..Len(engines) |-> engines[n].name]

\* the first three names of the registry, all of them when there are fewer
first_three ==
    [n \in 1..least(3, Len(registry_names)) |-> registry_names[n]]

\* the primary engine of a board followed by its supporting engines
listed_engines(board_name) ==
    << BOARD_PRESETS[board_name].primary_engine >>
    \o BOARD_PRESETS[board_name].supporting_engines

\* C12: for "auto" and for a key that is no board, get_engines_for_board
\* returns the first three names of the registry; for any other key the
\* primary engine and then the supporting engines, those in the registry
\* only, or the first three names when none is; the result is never empty.
C12_Resolved ==
    resolved # NotResolved =>
        LET key == resolved.board_name
            present(e) == e # "" /\ \E n \in 1..Len(engines) : engines[n].name = e
        IN  /\ (key = "auto" \/ key \notin DOMAIN BOARD_PRESETS) =>
                  resolved.engines = first_three
            /\ (key # "auto" /\ key \in DOMAIN BOARD_PRESETS) =>
                  LET kept == SelectSeq(listed_engines(key), present)
                  IN  resolved.engines = IF kept = << >> THEN first_three ELSE kept
            /\ resolved.engines # << >>

\* a preset resolved to its primary and supporting engines, in a registry the
\* config file extended
C12_Witness ==
    /\ resolved.board_name = "refactoring"
    /\ resolved.engines = listed_engines("refactoring")
    /\ Len(resolved.engines) = 3
    /\ Len(engines) > Len(FALLBACK_ENGINES)

\* the elements of xs, each at its first occurrence only
RECURSIVE first_occurrences(_)
first_occurrences(xs) ==
    IF xs = << >> THEN << >>
    ELSE LET front == first_occurrences(SubSeq(xs, 1, Len(xs) - 1))
         IN  IF in_list(last(xs), front) THEN front ELSE Append(front, last(xs))

\* what the claim says route_task selects, before the fallback
claimed_route(reg, task, language) ==
    LET task_lower == str_lower(task)
        speaks(server) == \E n \in 1..Len(server.languages) :
                             str_lower(server.languages[n]) = str_lower(language)
        hit(row) == any_in(row.keywords, task_lower)
        keys(rows) == [n \in 1..Len(rows) |-> rows[n].key]
    IN  first_occurrences(
            (IF any_in(GITHUB_KEYWORDS, task_lower) THEN << "github" >> ELSE << >>)
            \o (IF language = NoLanguage THEN << >> ELSE keys(SelectSeq(reg, speaks)))
            \o keys(SelectSeq(LANGUAGE_KEYWORDS, hit)))

\* C13 as stated: route_task returns github (on a GitHub keyword), then the
\* servers that have the language, then the keyword table's matches, no key
\* twice, and the fallback github, typescript, python when nothing matched.
C13_AsClaimed ==
    routed # NotRouted =>
        LET claimed == claimed_route(servers, routed.task, routed.language)
        IN  /\ routed.servers = IF claimed = << >>
                                THEN << "github", "typescript", "python" >> ELSE claimed
            /\ \A i \in 1..Len(routed.servers) : \A j \in 1..Len(routed.servers) :
                  routed.servers[i] = routed.servers[j] => i = j

\* the step in which run_multi_agent_task sorts and returns
multi_finishes == pc = "ma_loop" /\ pc' = "idle"

\* a multi command has returned
multi_returned == cmd.kind = "multi" /\ pc = "idle"

\* the one-to-one maps of 1..n onto itself
permutations(n) ==
    {p \in [1..n -> 1..n] : \A i \in 1..n : \A j \in 1..n : p[i] = p[j] => i = j}

\* C14: run_multi_agent_task returns the results of its calls reordered so
\* that the confidence never increases, and results of equal confidence
\* stand in the order their calls were made, the order of the board list.
C14_SortedStable ==
    [][multi_finishes =>
          LET made == cmd.results
              out  == cmd'.results
          IN  /\ Len(out) = Len(made)
              /\ \E p \in permutations(Len(made)) :
                    /\ \A i \in 1..Len(made) : out[i] = made[p[i]]
                    /\ \A i \in 1..Len(made) : \A j \in 1..Len(made) :
                          i < j =>
                            \/ out[i].confidence > out[j].confidence
                            \/ /\ out[i].confidence = out[j].confidence
                               /\ p[i] < p[j]
              /\ \A i \in 1..Len(made) : made[i].board_used = cmd.boards[i]
      ]_vars

\* the sort moved a result forward and left two results of equal confidence
\* on different boards in call order
C14_Witness ==
    /\ multi_returned
    /\ Len(cmd.results) >= 3
    /\ cmd.results[1].board_used # cmd.boards[1]
    /\ \E i \in 1..Len(cmd.results) - 1 :
          /\ cmd.results[i].confidence = cmd.results[i + 1].confidence
          /\ cmd.results[i].board_used # cmd.results[i + 1].board_used

\* the boards of the results, as a set
boards_used(results) == {results[n].board_used : n \in 1..Len(results)}

\* C15 as stated: with agent_count = k the command makes k process_task
\* calls on k distinct boards, returns k results and appends k session and k
\* learning entries.
C15_AsClaimed ==
    multi_returned =>
        /\ Len(cmd.results) = cmd.agent_count
        /\ Cardinality(boards_used(cmd.results)) = cmd.agent_count
        /\ Len(session_log) = cmd.agent_count
        /\ Len(learning_log) = cmd.agent_count

\* the entries on file whose field key equals value, in file order
matches(lines, key, value) ==
    SelectSeq(entries_of(well_formed(lines)),
              LAMBDA e : dict_has(e, key) /\ dict_get(e, key) = value)

\* C16 as stated: search(key, value, limit) returns exactly the first limit
\* entries whose field key equals value, all of them when there are fewer,
\* for every limit from 0 on; blank and malformed lines are skipped.
C16_AsClaimed ==
    lastRead.op = "search" =>
        lastRead.entries = take(matches(log, lastRead.key, lastRead.value), lastRead.limit)

\* a value no document holds
Unset == json_str("<unset>")

\* the value a document holds at a sequence of keys, Unset when a key is
\* missing or a level is not a mapping
RECURSIVE value_at(_, _)
value_at(document, keys) ==
    IF keys = << >> THEN document
    ELSE IF document.kind = "dict" /\ dict_has(document.items, Head(keys))
    THEN value_at(dict_get(document.items, Head(keys)), Tail(keys))
    ELSE Unset

is_prefix(a, b) == Len(a) <= Len(b) /\ SubSeq(b, 1, Len(a)) = a

\* one path is a prefix or an extension of the other
related(a, b) == is_prefix(a, b) \/ is_prefix(b, a)

\* the paths compared before and after a set
ProbeKeys ==
    SetKeys \cup
    { <<"a","p","p">>, <<"a","p","p",".","n","a","m","e">>, <<"a","p","p",".">>, <<"a">>, <<"a",".","b">>, <<"v","e","r","s","i","o","n">>, <<"a","g","i",".","m","a","x","A","g","e","n","t","s">>,
      <<"m","c","p",".","a","c","t","i","v","e","S","e","r","v","e","r","s">>, <<"x",".","y">> }

\* C17: a set(p, v) that passes only through mappings leaves a document in
\* which get(p) is v and every path that is neither a prefix nor an
\* extension of p holds what it held; and a SettingsManager built on the
\* settings file after the set has returned also returns v for p.
C17_RoundTrip ==
    [][\A p \in Processes :
          /\ (managers[p].pc = "ready" /\ managers'[p].pc = "writing") =>
                LET before == managers[p].settings
                    after == managers'[p].settings
                    key == managers'[p].key
                IN  /\ settings_get(after, key, json_null) = managers'[p].value
                    /\ \A other \in ProbeKeys :
                          ~related(split_path(other), split_path(key)) =>
                              value_at(after, split_path(other))
                                  = value_at(before, split_path(other))
          /\ \A q \in Processes :
                (managers[p].pc = "set" /\ managers[q].pc = "none"
                   /\ managers'[q].pc = "ready") =>
                    settings_get(managers'[q].settings, managers[p].key, json_null)
                        = managers[p].value
      ]_vars

\* p1 has set a.b.c in a document without a, and p2, built afterwards, holds
\* the value under the two mappings the set created
C17_Witness ==
    /\ managers["p1"].pc = "set"
    /\ managers["p1"].key = <<"a",".","b",".","c">>
    /\ managers["p1"].value = json_num("5")
    /\ managers["p2"].pc = "ready"
    /\ value_at(managers["p2"].settings, << <<"a">> >>).kind = "dict"
    /\ value_at(managers["p2"].settings, << <<"a">>, <<"b">> >>).kind = "dict"
    /\ value_at(managers["p2"].settings, << <<"a">>, <<"b">>, <<"c">> >>) = json_num("5")
    /\ value_at(managers["p2"].settings, << <<"a","p","p">>, <<"t","h","e","m","e">> >>) = json_str("dark")

\* C18 as stated: get(path, default) returns the default whenever the path
\* is not set in the document or passes through a value that is not a
\* mapping, whatever the default, a mapping included.
C18_AsClaimed ==
    (got.by # "none" /\ value_at(got.settings, split_path(got.key)) = Unset) =>
        got.value = got.default

\* the text of the document a process holds
document_of(p) == json_dumps_value(managers[p].settings)

\* both processes loaded the file before either called set, and set
\* different keys
raced == \A p \in Processes : managers[p].fresh /\ managers[p].pc \in {"writing", "set"}

\* C19 as stated: when two processes each load the settings file and each
\* set a different key, the file is at every moment one process's complete
\* document, and once both sets have returned it is the document of one of
\* them, without the key of the other.
C19_AsClaimed ==
    (raced /\ managers["p1"].key # managers["p2"].key) =>
        \E p \in Processes :
            /\ settings_file.tokens = document_of(p)
            /\ settings_load(settings_file) = managers[p].settings

\* a process_task call of the run command whose board key is neither "auto"
\* nor a key of the board registry
run_on_unknown_board ==
    /\ pc \in InProcessTask
    /\ call.ret = "idle"
    /\ call.board_arg # "auto"
    /\ call.board_arg \notin DOMAIN BOARD_PRESETS

persisted == << settings_file, mcp_config, memory_files, session_log, learning_log,
                upgrade_log, hyperparameter_log >>

\* C21 as stated: a command invoked without an argument its action requires
\* reports an error, persists nothing and exits with a non-zero status.
C21_AsClaimed ==
    [][(invoked'.count = invoked.count + 1 /\ invoked'.missing) =>
          /\ invoked'.error
          /\ UNCHANGED persisted
          /\ invoked'.exit # 0
      ]_vars

\* the settings file holds a JSON document that is a mapping
usable(file) ==
    file.exists /\ json_loads_ok(file.tokens) /\ json_loads_value(file.tokens).kind = "dict"

\* C22 as stated: whatever the settings file holds, a new SettingsManager
\* has the document of the file when that is a mapping and the built-in
\* defaults otherwise, and set never raises on account of the document not
\* being a mapping.
C22_AsClaimed ==
    [][\A p \in Processes :
          /\ (managers[p].pc = "none" /\ managers'[p].pc = "ready") =>
                managers'[p].settings = IF usable(settings_file)
                                        THEN json_loads_value(settings_file.tokens)
                                        ELSE default_settings
          /\ (managers[p].pc = "ready" /\ managers'[p].pc = "raised") =>
                is_dict(managers[p].settings)
      ]_vars

\* the entries recorded so far whose place is after the first n
recorded_after(n) == SubSeq(recorded_entries(trainer.recorded), n + 1, trainer.recorded)

\* C23: training_history.json holds at most 1000 entries, and they are the
\* entries recorded last, in the order they were recorded.
C23_LastThousand ==
    history_file.exists =>
        /\ Len(history_file.documents) <= 1000
        /\ load_history(history_file)
             = recorded_after(IF trainer.recorded > 1000 THEN trainer.recorded - 1000 ELSE 0)

\* 1002 cycles were recorded, the engine was restarted after the thousandth
\* and holds 1000 entries, and the file starts at the third entry
C23_Witness ==
    /\ trainer.recorded = 1002
    /\ Len(trainer.history) = 1000
    /\ Len(history_file.documents) = 1000
    /\ json_loads_value(history_file.documents[1]) = history_entry(3, "extreme", 50)

\* C24 as stated: every process_task call receives a task id different from
\* the id of every other call, whatever the clock reads: no two session
\* entries, one per call, carry the same task id.
C24_AsClaimed ==
    \A i \in 1..Len(session_log) : \A j \in 1..Len(session_log) :
        i # j => dict_get(json_loads(session_log[i]), "task_id")
                     # dict_get(json_loads(session_log[j]), "task_id")

\* C25 as stated: in the metrics train_engines returns, and in the training
\* entry it logs, tests_passed is at most tests_total, for every problem
\* list and every intensity.
C25_AsClaimed ==
    /\ metrics.tests_passed <= metrics.tests_total
    /\ \A n \in 1..Len(learning_log) :
           LET l == json_loads(learning_log[n])
           IN  dict_get(l, "type") = "training"
                   => dict_get(l, "tests_passed") <= dict_get(l, "tests_total")

\* xs is a suffix of ys
is_suffix(xs, ys) ==
    /\ Len(xs) <= Len(ys)
    /\ xs = SubSeq(ys, Len(ys) - Len(xs) + 1, Len(ys))

\* C26 as stated: tail(limit) never returns more than limit entries, for
\* every limit from 0 on (tail(0) returns the empty list), and the result is
\* a suffix, in file order, of the well-formed entries of the log.
C26_AsClaimed ==
    lastRead.op = "tail" =>
        /\ Len(lastRead.entries) <= lastRead.limit
        /\ is_suffix(lastRead.entries, entries_of(well_formed(log)))

\* the proper prefixes of a path
proper_prefixes(keys) == { SubSeq(keys, 1, n) : n \in 1..(Len(keys) - 1) }

\* a proper prefix of the path addresses an existing value that is not a
\* mapping
through_scalar(document, keys) ==
    \E prefix \in proper_prefixes(keys) :
        /\ value_at(document, prefix) # Unset
        /\ value_at(document, prefix).kind # "dict"

\* C27: set(path, v) on a path of which a proper prefix addresses an existing
\* value that is not a mapping (a string, a number, a list, null) raises and
\* leaves the document in memory and the settings file exactly as they were.
C27_RaisesUnchanged ==
    [][\A p \in Processes :
          (/\ managers[p].pc = "ready"
           /\ managers'[p].pc \in {"writing", "raised"}
           /\ through_scalar(managers[p].settings, split_path(managers'[p].key)))
          => /\ managers'[p].pc = "raised"
             /\ managers'[p].settings = managers[p].settings
             /\ settings_file' = settings_file
      ]_vars

\* p1 has set x to a number and returned; p2, built on the file p1 wrote,
\* called set("x.y", ...) and raised, its document and the file still
\* holding the number at x
C27_Witness ==
    /\ managers["p1"].pc = "set"
    /\ managers["p1"].key = <<"x">>
    /\ managers["p2"].pc = "raised"
    /\ managers["p2"].key = <<"x",".","y">>
    /\ ~managers["p2"].fresh
    /\ value_at(managers["p2"].settings, << <<"x">> >>) = json_num("5")
    /\ value_at(settings_load(settings_file), << <<"x">> >>) = json_num("5")

\* the n-th process_task call of the upgrade was the one of the n-th step of
\* the plan: its task, its board and its agents
step_logged(n) ==
    LET step == upgrade.plan.steps[n]
        s == json_loads(session_log[n])
    IN  /\ dict_get(s, "task") = upgrade.plan.summary \o " :: " \o step.description
        /\ dict_get(s, "board") = step.board
        /\ dict_get(s, "multi_agent") = (step.agents > 1)

\* C28: execute_upgrade processes the steps of the plan in plan order, one
\* process_task call per step, and appends the one upgrade log entry only
\* after every step, with steps_completed the number of steps; when a step
\* raises no upgrade log entry is written; a plan that is built and not
\* executed appends nothing to any log.
C28_StepsThenEntry ==
    /\ Len(session_log) <= Len(upgrade.plan.steps)
    /\ \A n \in 1..Len(session_log) : step_logged(n)
    /\ Len(upgrade.results) <= Len(session_log)
    /\ \A n \in 1..Len(upgrade.results) :
           upgrade.results[n].step = upgrade.plan.steps[n].name
    /\ upgrade.outcome = "completed" =>
           /\ Len(session_log) = Len(upgrade.plan.steps)
           /\ Len(learning_log) = Len(upgrade.plan.steps)
           /\ Len(upgrade_log) = 1
           /\ LET u == json_loads(upgrade_log[1])
              IN  /\ dict_get(u, "type") = "upgrade"
                  /\ dict_get(u, "steps_completed") = Len(upgrade.plan.steps)
                  /\ dict_get(u, "summary") = upgrade.plan.summary
                  /\ dict_get(u, "mode") = upgrade.plan.mode
    /\ upgrade.outcome # "completed" => upgrade_log = << >>
    /\ upgrade.outcome \in {"planned", "refused"} =>
           /\ session_log = << >>
           /\ learning_log = << >>
           /\ hyperparameter_log = << >>

\* an upgrade in mode "feature" was executed to its end: six session entries,
\* the third for the code-generator step with three agents, and one upgrade
\* log entry with steps_completed 6
C28_Witness ==
    /\ upgrade.outcome = "completed"
    /\ upgrade.plan.mode = "feature"
    /\ Len(session_log) = 6
    /\ dict_get(json_loads(session_log[3]), "board") = "code-generator"
    /\ dict_get(json_loads(session_log[6]), "board") = "doc-generator"
    /\ Len(upgrade_log) = 1
    /\ dict_get(json_loads(upgrade_log[1]), "steps_completed") = 6

\* the ids of the collaborators a session lists
listed_ids(session) == { session.collaborators[n].id : n \in 1..Len(session.collaborators) }

\* C29 as stated: after any sequence of create_session, join_session and
\* leave_session calls and manager restarts, the collaborator list of each
\* session holds exactly those who created or joined it and have not left,
\* each at most once.
C29_AsClaimed ==
    \A n \in 1..Len(collab.sessions) :
        LET session == collab.sessions[n]
        IN  /\ listed_ids(session) = joined[session.session_id]
            /\ Len(session.collaborators) = Cardinality(listed_ids(session))

\* stop() was called on a server that start() had started
stop_after_start == ext.caller = "stopping" /\ ext.server = "open"

\* C30 as stated: after start() succeeded, stop() always returns; afterwards
\* is_running() is false, and the background thread eventually exits
\* without any further request.
C30_AsClaimed ==
    /\ stop_after_start ~> (ext.caller = "idle" /\ ~ext.running)
    /\ stop_after_start ~> (ext.thread = "exited")

====
